---- MODULE Spec2Model ----
(***************************************************************************)
(* A model of p2p/src/libp2p_connection.rs: the integrity-fee validator    *)
(* (validate_integrity_message) with its per-kernel call history, the      *)
(* gossip event pump and the reconnection task of run_libp2p_node, and the *)
(* process-wide peer directory.                                            *)
(*                                                                         *)
(* These specifications are given.                                         *)
(*   SpecValidator  direct calls of validate_integrity_message with every  *)
(*                  kind of frame, publisher and kernel lookup outcome.    *)
(*   SpecRate       calls with well-formed, paid frames under a moving     *)
(*                  clock, together with the periodic history sweep.       *)
(*   SpecPump       the event pump of the running node: gossip messages,   *)
(*                  the history sweep, connection events, topic calls.     *)
(*   SpecDialer     the reconnection task beside the pump's peer exchange, *)
(*                  the swarm's connection events and the host's seeds.    *)
(*   SpecCodec      build_integrity_message and read_message_data on the   *)
(*                  integrity envelope.                                    *)
(*   SpecSync       the mutexes as the pump, the reconnection task and a   *)
(*                  thread of the host take and drop them; SpecSyncFair    *)
(*                  adds the scheduling, for what must eventually happen.  *)
(*   SpecStartup    the startup of run_libp2p_node beside add_topic and    *)
(*                  remove_topic.                                          *)
(***************************************************************************)
EXTENDS Integers, Sequences, FiniteSets, TLC

(***************************************************************************)
(* Program constants.                                                      *)
(***************************************************************************)
INTEGRITY_CALL_HISTORY_LEN_LIMIT == 10
INTEGRITY_CALL_MAX_PERIOD == 15
INTEGRITY_FEE_MIN_X == 10
\* Duration::from_secs(600): the shortest time between two history sweeps.
CASH_CLEAN_PERIOD == 600
\* counter < 10: the reconnection task inspects on every 10th wakeup.
RECONNECT_TICKS == 10

(***************************************************************************)
(* Bounds of the model.                                                    *)
(***************************************************************************)
\* u64 is modelled as an unsigned word of U64_BITS bits.
U64_BITS == 6
\* The clock's reading when the model starts, in seconds.
StartTime == 1000
\* Clock advances in a behaviour.
MaxTicks == 2
\* Calls of validate_integrity_message in a behaviour of SpecValidator.
MaxValidatorCalls == 2
\* Validations per kernel in a behaviour of SpecRate: the kernel under
\* load and the other one.
MaxCalls == 11
MaxCallsOther == 1

U64_MOD == 2 ^ U64_BITS

\* Seconds the clock may advance by in one step: around the call period
\* (14 < 15), around nine periods (134 < 135), the retention horizon (150)
\* and past the sweep period (601 > 600).
Deltas == {14, 134, 135, 150, 601}

(***************************************************************************)
(* Values.                                                                 *)
(***************************************************************************)
\* Publishers.
Peers == {"P1", "P2"}
\* Kernel excess commitments. "KX" is a commitment that is no valid public
\* key (Commitment::to_pubkey fails on it).
Commitments == {"K1", "K2", "KX"}
Kernels == {"K1", "K2"}

\* Hash::from_vec(&peer_id.to_bytes()): modelled as an injective tagging.
HashOfPeer(p) == <<"hash", p>>

\* Commitment::to_pubkey.
to_pubkey(c) == IF c \in Kernels THEN [ok |-> TRUE, pk |-> <<"pk", c>>]
                ELSE [ok |-> FALSE, pk |-> <<"pk", "none">>]

\* The compact signature bytes of a frame: either bytes Signature::from_compact
\* refuses, or the signature made with kernel k's key over hash h.
BadSigBytes == [parses |-> FALSE, pk |-> <<"pk", "none">>, msg |-> <<"hash", "none">>]
SigOf(k, p) == [parses |-> TRUE, pk |-> <<"pk", k>>, msg |-> HashOfPeer(p)]
SigBytes == {BadSigBytes} \cup {SigOf(k, p) : k \in Kernels, p \in Peers}

\* aggsig::verify_completed_sig(secp, sig, pk, Some(pk), msg).
verify_completed_sig(sig, pk, msg) == sig.pk = pk /\ sig.msg = msg

\* An integrity frame as SimplePopSerializer reads it: the version byte and
\* the three vectors popped in order.
Frame(v, k, s) == [version |-> v, kernel_excess |-> k, signature |-> s]
Frames == {Frame(v, k, s) : v \in {1, 2}, k \in Commitments, s \in SigBytes}
ValidFrame(k, p) == Frame(1, k, SigOf(k, p))

\* fee_base values: an ordinary one, and the smallest one whose tenfold
\* does not fit u64.
OverflowingFeeBase == (U64_MOD \div INTEGRITY_FEE_MIN_X) + 1
FeeBases == {1, OverflowingFeeBase}

\* Outcomes of output_validation_fn(&integrity_kernel_excess): an error, no
\* kernel, or a kernel with the given fee.
LookupErr == [kind |-> "Err", fee |-> 0]
LookupNone == [kind |-> "None", fee |-> 0]
LookupSome(f) == [kind |-> "Some", fee |-> f]
Fees == {9, 10, 11, (OverflowingFeeBase * INTEGRITY_FEE_MIN_X) % U64_MOD}
Lookups == {LookupErr, LookupNone} \cup {LookupSome(f) : f \in Fees}

\* Result<u64, Error> of the validator, and a panic of the calling thread.
Ok(n) == [kind |-> "Ok", fee |-> n]
Err == [kind |-> "Err", fee |-> 0]
Panic == [kind |-> "Panic", fee |-> 0]

NoCall == [peer_id |-> "none", message |-> Frame(0, "KX", BadSigBytes),
           lookup |-> LookupNone, ret |-> Ok(0), recorded |-> FALSE]

VARIABLES
  debug_assertions, \* the build: TRUE for a build with debug assertions and
                    \* overflow checks (cargo's dev profile), FALSE for release
  fee_base,         \* the fee_base argument
  now,              \* the clock, seconds
  ticks,            \* clock advances so far
  requests_cash,    \* HashMap<Commitment, VecDeque<i64>>: kernel -> call times
  last_cash_clean,  \* the time of the last sweep
  panicked,         \* the validating thread has panicked
  ncalls,           \* calls of validate_integrity_message so far
  last_call,        \* the arguments and the result of the last call
  calls_log,        \* history variable: per kernel, every call that reached
                    \* the call-history update, as [t, fee, ret]
  epoch             \* history variable: per kernel, Len(calls_log[k]) when
                    \* the kernel last was absent from requests_cash

validator_vars == <<debug_assertions, fee_base, now, ticks, requests_cash,
                    last_cash_clean, panicked, ncalls, last_call, calls_log, epoch>>

\* The running node (run_libp2p_node) and the process-wide state.
VARIABLES
  log_debug,        \* the logger passes debug! records (their arguments are
                    \* evaluated only then)
  connected,        \* swarm: peers with an established connection
  dialing,          \* swarm: peers with a pending outgoing connection
  banned,           \* swarm: peers given to disconnect_peer(_, true)
  subscribed,       \* swarm: topics subscribed
  LIBP2P_PEERS,     \* the peer directory: key -> [peers, time]
  LIBP2P_MESSAGE_HANDLERS, \* topics with a registered handler
  SEED_LIST,        \* the configured seeds
  counter,          \* reconnection task: wakeups since the last inspection
  ticker_pc,        \* reconnection task: "sleep", "select" or "finish"
  address_to_connect, \* reconnection task: the peer chosen to dial, or "none"
  nw_connections,   \* reconnection task: num_connections() of its nw_info
  examined,         \* history variable: addresses taken from the directory
                    \* during the current inspection
  nevents,          \* gossip messages handled so far
  last_event,       \* what the pump did with the last gossip message
  ndials,           \* calls of dial_addr so far
  last_dial,        \* the last call of dial_addr
  nhost,            \* calls from the host so far
  px_observed       \* history variable: publisher -> the list of its last
                    \* peer-exchange frame that reached the directory

\* The envelope codec (build_integrity_message, read_message_data).
VARIABLES
  envelope_args,    \* the arguments of build_integrity_message
  envelope,         \* the frame bytes, <<>> before it is built
  payload_read      \* the result of read_message_data on the frame

codec_vars == <<envelope_args, envelope, payload_read>>

\* The mutexes and the control of the tasks that take them.
VARIABLES
  stop_flag,        \* *stop_mutex: 0 asks the node to stop
  swarm_slot,       \* LIBP2P_SWARM holds a swarm
  pump_pc,          \* event pump: where its poll stands, "pending" between polls
  host_call,        \* host thread: the call it is in, "idle" outside calls
  host_pos,         \* host thread: how many mutexes of the call it has taken
  held,             \* task -> the mutexes it holds, in the order taken
  dir_items,        \* SpecSync's view of LIBP2P_PEERS: how many addresses
                    \* and keys the reconnection task can still draw
  handler_call,     \* the public function a topic handler is in, or "none"
  handler_pos,      \* how many mutex steps of that call are done
  run_pc            \* run_libp2p_node: "start" before its subscribe pass,
                    \* "built" before init_libp2p_swarm, then "running"

sync_vars == <<stop_flag, swarm_slot, pump_pc, host_call, host_pos, held,
               dir_items, handler_call, handler_pos, run_pc>>

aux_vars == <<codec_vars, sync_vars>>

node_vars == <<log_debug, connected, dialing, banned, subscribed, LIBP2P_PEERS,
               LIBP2P_MESSAGE_HANDLERS, SEED_LIST, counter, ticker_pc,
               address_to_connect, nw_connections, examined, nevents, last_event,
               ndials, last_dial, nhost, px_observed, aux_vars>>

vars == <<validator_vars, node_vars>>

(***************************************************************************)
(* validate_integrity_message.                                             *)
(***************************************************************************)
\* A division that rounds up instead (not the program's).
I64Div_RoundingUp(a, b) == (a + b - 1) \div b

\* i64 division truncates toward zero.
I64Div(a, b) == IF a >= 0 THEN a \div b ELSE -((-a) \div b)

\* calls.push_back(now); while calls.len() > LIMIT { calls.pop_front(); }
RECURSIVE TrimFront(_)
TrimFront(calls) ==
  IF Len(calls) > INTEGRITY_CALL_HISTORY_LEN_LIMIT THEN TrimFront(Tail(calls))
  ELSE calls

\* A history that takes new timestamps at its front (not the program's).
UpdateCallHistory_PushFront(cash, excess, t) ==
  IF excess \in DOMAIN cash
  THEN [cash EXCEPT ![excess] = TrimFront(<<t>> \o @)]
  ELSE cash @@ (excess :> <<t>>)

\* "Updating calls history cash".
UpdateCallHistory(cash, excess, t) ==
  IF excess \in DOMAIN cash
  THEN [cash EXCEPT ![excess] = TrimFront(Append(@, t))]
  ELSE cash @@ (excess :> <<t>>)

\* A limit that needs more than ten timestamps (not the program's).
TooManyCalls_AboveLimit(call_history) ==
  /\ Len(call_history) > INTEGRITY_CALL_HISTORY_LEN_LIMIT
  /\ I64Div(call_history[Len(call_history)] - call_history[1], Len(call_history) - 1)
       < INTEGRITY_CALL_MAX_PERIOD

\* A limit that is reached at nine timestamps (not the program's).
TooManyCalls_AtNine(call_history) ==
  /\ Len(call_history) >= INTEGRITY_CALL_HISTORY_LEN_LIMIT - 1
  /\ I64Div(call_history[Len(call_history)] - call_history[1], Len(call_history) - 1)
       < INTEGRITY_CALL_MAX_PERIOD

\* A limit that counts timestamps and ignores their age (not the program's).
TooManyCalls_CountOnly(call_history) ==
  Len(call_history) >= INTEGRITY_CALL_HISTORY_LEN_LIMIT

\* "Checking if ths peer sent too many messages".
TooManyCalls(call_history) ==
  /\ Len(call_history) >= INTEGRITY_CALL_HISTORY_LEN_LIMIT
  /\ I64Div(call_history[Len(call_history)] - call_history[1],
            Len(call_history) - 1) < INTEGRITY_CALL_MAX_PERIOD

\* fee_base * INTEGRITY_FEE_MIN_X in u64.
FeeFloorOverflows(fb) == fb * INTEGRITY_FEE_MIN_X >= U64_MOD
FeeFloor(fb) == (fb * INTEGRITY_FEE_MIN_X) % U64_MOD

\* The steps from the call-history update on.
RateLimitStep(cash, excess, integrity_fee, t) ==
  LET updated == UpdateCallHistory(cash, excess, t) IN
  [ret |-> IF TooManyCalls(updated[excess]) THEN Ok(0) ELSE Ok(integrity_fee),
   cash |-> updated, recorded |-> TRUE]

\* A validator that keeps the quota of a kernel for the publisher "P1" only
\* (not the program's).
validate_integrity_message_PerPublisher(peer_id, message, lookup, cash, fb, t, dbg) ==
  LET Return(r) == [ret |-> r, cash |-> cash, recorded |-> FALSE]
      integrity_pk == to_pubkey(message.kernel_excess)
  IN
  IF message.version # 1
    THEN (IF dbg THEN Return(Panic) ELSE Return(Ok(0)))
  ELSE IF ~integrity_pk.ok THEN Return(Ok(0))
  ELSE IF ~message.signature.parses THEN Return(Ok(0))
  ELSE IF ~verify_completed_sig(message.signature, integrity_pk.pk, HashOfPeer(peer_id))
    THEN Return(Ok(0))
  ELSE IF lookup.kind = "Err" THEN Return(Err)
  ELSE IF lookup.kind = "None" THEN Return(Ok(0))
  ELSE IF FeeFloorOverflows(fb) /\ dbg THEN Return(Panic)
  ELSE IF lookup.fee < FeeFloor(fb) THEN Return(Ok(0))
  ELSE IF peer_id = "P1" THEN RateLimitStep(cash, message.kernel_excess, lookup.fee, t)
  ELSE Return(Ok(lookup.fee))

\* The result of the call and the call history it leaves, at time t in a
\* build with (dbg) or without debug assertions and overflow checks.
validate_integrity_message(peer_id, message, lookup, cash, fb, t, dbg) ==
  LET Return(r) == [ret |-> r, cash |-> cash, recorded |-> FALSE]
      integrity_pk == to_pubkey(message.kernel_excess)
  IN
  IF message.version # 1
    THEN (IF dbg THEN Return(Panic) ELSE Return(Ok(0)))
  ELSE IF ~integrity_pk.ok THEN Return(Ok(0))
  ELSE IF ~message.signature.parses THEN Return(Ok(0))
  ELSE IF ~verify_completed_sig(message.signature, integrity_pk.pk, HashOfPeer(peer_id))
    THEN Return(Ok(0))
  ELSE IF lookup.kind = "Err" THEN Return(Err)
  ELSE IF lookup.kind = "None" THEN Return(Ok(0))
  ELSE IF FeeFloorOverflows(fb) /\ dbg THEN Return(Panic)
  ELSE IF lookup.fee < FeeFloor(fb) THEN Return(Ok(0))
  ELSE RateLimitStep(cash, message.kernel_excess, lookup.fee, t)

(***************************************************************************)
(* Actions shared by the specifications.                                   *)
(***************************************************************************)
\* One call of validate_integrity_message by the thread that owns the history.
Validate(peer_id, message, lookup) ==
  LET r == validate_integrity_message(peer_id, message, lookup, requests_cash,
                                      fee_base, now, debug_assertions)
      k == message.kernel_excess
  IN
  /\ ~panicked
  /\ requests_cash' = r.cash
  /\ panicked' = (r.ret.kind = "Panic")
  /\ ncalls' = ncalls + 1
  /\ last_call' = [peer_id |-> peer_id, message |-> message, lookup |-> lookup,
                   ret |-> r.ret, recorded |-> r.recorded]
  /\ calls_log' = IF r.recorded
                  THEN [calls_log EXCEPT ![k] =
                          Append(@, [t |-> now, fee |-> lookup.fee, ret |-> r.ret.fee])]
                  ELSE calls_log
  /\ UNCHANGED <<debug_assertions, fee_base, now, ticks, last_cash_clean, epoch>>

\* The clock advances, at most max times in a behaviour.
TickUpTo(max, deltas) ==
  /\ ~panicked
  /\ ticks < max
  /\ \E d \in deltas : now' = now + d
  /\ ticks' = ticks + 1
  /\ UNCHANGED <<debug_assertions, fee_base, requests_cash, last_cash_clean,
                 panicked, ncalls, last_call, calls_log, epoch>>

(***************************************************************************)
(* SpecValidator: direct calls with every kind of input.                   *)
(***************************************************************************)
\* The node's state where no node runs.
NoEvent == [topic |-> "none", source |-> "none", verdict |-> "none",
            disconnected |-> "none", handler_ret |-> "none", ret |-> Ok(0),
            validated |-> FALSE]
NoDial == [peer |-> "none", examined |-> <<>>]

\* The tasks that take mutexes: the two futures of run_libp2p_node, which
\* share one thread, and a thread of the host.
Tasks == {"pump", "ticker", "host"}

NoArgs == [kernel_excess |-> <<>>, signature |-> <<>>, message_data |-> <<>>]
NoRead == [kind |-> "none", data |-> <<>>]

\* No envelope is in work, no task is inside a poll or a call; installed
\* tells whether run_libp2p_node has installed the swarm.
InitSync(installed) ==
  /\ stop_flag = 1
  /\ swarm_slot = installed
  /\ pump_pc = "pending"
  /\ host_call = "idle"
  /\ host_pos = 0
  /\ held = [t \in Tasks |-> <<>>]
  /\ handler_call = "none"
  /\ handler_pos = 0
  /\ run_pc = IF installed THEN "running" ELSE "start"

InitAux(installed) ==
  /\ envelope_args = NoArgs
  /\ envelope = <<>>
  /\ payload_read = NoRead
  /\ InitSync(installed)
  /\ dir_items = 0

\* The variables of run_libp2p_node where no node runs.
InitNodeOff ==
  /\ px_observed = <<>>
  /\ log_debug = FALSE
  /\ connected = {}
  /\ dialing = {}
  /\ banned = {}
  /\ subscribed = {}
  /\ LIBP2P_PEERS = <<>>
  /\ LIBP2P_MESSAGE_HANDLERS = {}
  /\ SEED_LIST = <<>>
  /\ counter = 0
  /\ ticker_pc = "sleep"
  /\ address_to_connect = "none"
  /\ nw_connections = 0
  /\ examined = <<>>
  /\ nevents = 0
  /\ last_event = NoEvent
  /\ ndials = 0
  /\ last_dial = NoDial
  /\ nhost = 0

InitNoNode ==
  /\ InitAux(FALSE)
  /\ InitNodeOff

InitCommon ==
  /\ now = StartTime
  /\ ticks = 0
  /\ requests_cash = <<>>
  /\ last_cash_clean = StartTime
  /\ panicked = FALSE
  /\ ncalls = 0
  /\ last_call = NoCall
  /\ calls_log = [k \in Kernels |-> <<>>]
  /\ epoch = [k \in Kernels |-> 0]

\* The history after n paid calls of kernel k at time t, and its log.
HistoryOf(k, n, t) == (k :> [i \in 1..n |-> t])
LogOf(k, n, t, f) ==
  [c \in Kernels |-> IF c = k THEN [i \in 1..n |-> [t |-> t, fee |-> f, ret |-> f]]
                     ELSE <<>>]

\* The calls start on an empty history, or on the history nine paid calls
\* of K1 have left (a build that panics on the fee floor never gets there).
InitValidator ==
  /\ debug_assertions \in BOOLEAN
  /\ fee_base \in FeeBases
  /\ now = StartTime
  /\ ticks = 0
  /\ last_cash_clean = StartTime
  /\ panicked = FALSE
  /\ ncalls = 0
  /\ last_call = NoCall
  /\ epoch = [k \in Kernels |-> 0]
  /\ InitNoNode
  /\ \/ /\ requests_cash = <<>>
        /\ calls_log = [k \in Kernels |-> <<>>]
     \/ /\ ~(debug_assertions /\ FeeFloorOverflows(fee_base))
        /\ requests_cash = HistoryOf("K1", INTEGRITY_CALL_HISTORY_LEN_LIMIT - 1, StartTime)
        /\ calls_log = LogOf("K1", INTEGRITY_CALL_HISTORY_LEN_LIMIT - 1, StartTime, 11)

ValidateAny ==
  /\ ncalls < MaxValidatorCalls
  /\ \E p \in Peers, m \in Frames, l \in Lookups : Validate(p, m, l)
  /\ UNCHANGED node_vars

TickValidator == TickUpTo(1, Deltas) /\ UNCHANGED node_vars

NextValidator == ValidateAny \/ TickValidator

SpecValidator == InitValidator /\ [][NextValidator]_vars

(***************************************************************************)
(* SpecRate: paid frames under a moving clock, and the history sweep.      *)
(***************************************************************************)
\* A sweep that removes every history (not the program's).
Retained_DropsAll(cash, t) == {}

\* A sweep that keeps a history whose newest timestamp is exactly at the
\* horizon (not the program's).
Retained_KeepsAtHorizon(cash, t) ==
  LET history_time_limit == t - INTEGRITY_CALL_HISTORY_LEN_LIMIT * INTEGRITY_CALL_MAX_PERIOD
      back(h) == IF Len(h) = 0 THEN 0 ELSE h[Len(h)]
  IN {k \in DOMAIN cash : back(cash[k]) >= history_time_limit}

\* "cleanup expired requests_cash values": the kernels the sweep keeps.
Retained(cash, t) ==
  LET history_time_limit == t - INTEGRITY_CALL_HISTORY_LEN_LIMIT * INTEGRITY_CALL_MAX_PERIOD
      back(h) == IF Len(h) = 0 THEN 0 ELSE h[Len(h)]
  IN {k \in DOMAIN cash : back(cash[k]) > history_time_limit}

SweepDue(t) == last_cash_clean + CASH_CLEAN_PERIOD < t

\* "cleanup expired requests_cash values", when it is due.
CleanupCash ==
  /\ ~panicked
  /\ IF SweepDue(now)
     THEN LET keep == Retained(requests_cash, now) IN
          /\ requests_cash' = [k \in keep |-> requests_cash[k]]
          /\ last_cash_clean' = now
          /\ epoch' = [k \in Kernels |->
                         IF k \in DOMAIN requests_cash /\ k \notin keep
                         THEN Len(calls_log[k]) ELSE epoch[k]]
     ELSE UNCHANGED <<requests_cash, last_cash_clean, epoch>>
  /\ UNCHANGED <<debug_assertions, fee_base, now, ticks, panicked, ncalls,
                 last_call, calls_log>>

InitRate ==
  /\ debug_assertions \in BOOLEAN
  /\ fee_base = 1
  /\ InitCommon
  /\ InitNoNode

CallCap(k) == IF k = "K1" THEN MaxCalls ELSE MaxCallsOther

\* The fee of kernel k on the chain: ten fee_base for K1, more for K2.
PaidFee(k) == IF k = "K1" THEN INTEGRITY_FEE_MIN_X * fee_base
              ELSE INTEGRITY_FEE_MIN_X * fee_base + 1

\* A frame of version 1, signed for its publisher with the key of a kernel
\* the chain holds with a fee of at least ten fee_base.
ValidatePaid ==
  \E k \in Kernels, p \in Peers :
    /\ Len(calls_log[k]) < CallCap(k)
    /\ Validate(p, ValidFrame(k, p), LookupSome(PaidFee(k)))
    /\ UNCHANGED node_vars

TickRate == TickUpTo(MaxTicks, Deltas) /\ UNCHANGED node_vars

\* The end of one poll of the event pump.
SweepRate == CleanupCash /\ UNCHANGED node_vars

NextRate == ValidatePaid \/ TickRate \/ SweepRate

SpecRate == InitRate /\ [][NextRate]_vars

(***************************************************************************)
(* The running node: values.                                               *)
(***************************************************************************)
\* This node's PeerId (THIS_PEER_ID) and the PeerIds of other nodes.
this_peer_id == "ME"

\* The reserved peer-exchange topic and the application topics.
PEER_TOPIC == "PEER_TOPIC"
AppTopics == {"T1", "T2"}

\* An onion address string, the directory's "SELF" key, and a string that
\* is no onion address: all are pairs, so that they compare.
OnionOf(p) == <<"onion3", p>>
SELF == <<"SELF", "">>
NotOnion == <<"text", "bad">>

\* PeerId::as_onion_address of a peer with an ed25519 key.
as_onion_address(p) == OnionOf(p)

\* tor_address.as_str().try_into() and to_ed25519, then
\* PeerId::from_public_key: the peer an address string names, if any.
PeerOfAddress(a) ==
  IF a[1] = "onion3" THEN [ok |-> TRUE, peer |-> a[2]]
  ELSE [ok |-> FALSE, peer |-> "none"]

\* The byte vector of one peer in a peer-exchange frame: a PeerId with an
\* ed25519 key, a PeerId without one, or bytes PeerId::from_bytes refuses.
PeerBytes(p) == [decodes |-> TRUE, dalek |-> TRUE, peer |-> p]
NoDalekPeerBytes == [decodes |-> TRUE, dalek |-> FALSE, peer |-> "PX"]
GarbageBytes == [decodes |-> FALSE, dalek |-> FALSE, peer |-> "none"]

\* The largest peer list of a peer-exchange frame. It stands for the gossip
\* library's PEER_EXCHANGE_NUMBER_LIMIT.
PEER_EXCHANGE_NUMBER_LIMIT == 2

\* Peer-exchange frames: the version byte, the count and the peer vectors.
PxFrame(v, n, l) == [version |-> v, sz |-> n, peers |-> l]
PxLists == {<<PeerBytes("P2")>>, <<PeerBytes(this_peer_id), NoDalekPeerBytes>>,
            <<GarbageBytes, PeerBytes("P1")>>}
PxFrames == {PxFrame(v, Len(l), l) : v \in {1, 2}, l \in PxLists}
            \cup {PxFrame(1, PEER_EXCHANGE_NUMBER_LIMIT + 1, <<>>)}

\* A list that keeps every vector of the frame (not the program's).
PeerArr_KeepsUndecoded(l) == [i \in 1..Len(l) |-> as_onion_address(l[i].peer)]

\* The onion strings of the vectors that decode to a PeerId with an ed25519
\* key, in the frame's order.
RECURSIVE PeerArr(_)
PeerArr(l) ==
  IF l = <<>> THEN <<>>
  ELSE IF Head(l).decodes /\ Head(l).dalek
       THEN <<as_onion_address(Head(l).peer)>> \o PeerArr(Tail(l))
       ELSE PeerArr(Tail(l))

\* Integrity frames and lookups an application message may carry.
AppFrames == {ValidFrame("K1", "P1"), Frame(2, "K1", SigOf("K1", "P1")),
              Frame(1, "K1", BadSigBytes)}
AppLookups == {LookupErr, LookupNone, LookupSome(9), LookupSome(10)}

\* Gossip messages handled in a behaviour.
MaxEvents == 2
\* Host calls in a behaviour, and clock advances in a behaviour of the node.
MaxHostCalls == 1
MaxNodeTicks == 1
\* Dials in a behaviour.
MaxDials == 2

(***************************************************************************)
(* The gossip event pump (the poll_fn closure of run_libp2p_node).         *)
(***************************************************************************)
\* The debug! record at the head of the message arm evaluates
\* read_message_data(&message.data), whose debug_assert!(false) fires on a
\* version byte other than 1.
LogPanics(version) == debug_assertions /\ log_debug /\ version # 1

\* The pump runs only between two steps of the reconnection task, which
\* holds the swarm from "select" to "finish".
PumpRuns == ~panicked /\ ticker_pc = "sleep"

Event(topic, source, verdict, disc, handler_ret, ret, validated) ==
  [topic |-> topic, source |-> source, verdict |-> verdict, disconnected |-> disc,
   handler_ret |-> handler_ret, ret |-> ret, validated |-> validated]

\* An insert that appends to the publisher's previous list (not the
\* program's).
InsertPeers_Appends(dir, addr, peer_arr, t) ==
  [a \in DOMAIN dir \cup {addr} |->
     IF a = addr
     THEN [peers |-> (IF addr \in DOMAIN dir THEN dir[addr].peers ELSE <<>>) \o peer_arr,
           time |-> t]
     ELSE dir[a]]

\* new_peers_list.insert(addr, (peer_arr, now)): the publisher's entry is
\* set, a previous one is overwritten.
InsertPeers(dir, addr, peer_arr, t) ==
  [a \in DOMAIN dir \cup {addr} |->
     IF a = addr THEN [peers |-> peer_arr, time |-> t] ELSE dir[a]]

\* A handler without the limit on the count (not the program's).
PeerTopicMessage_InsertsOversized(source, px) ==
  /\ PumpRuns
  /\ nevents < MaxEvents
  /\ nevents' = nevents + 1
  /\ IF LogPanics(px.version)
     THEN /\ panicked' = TRUE
          /\ last_event' = Event(PEER_TOPIC, source, "none", "none", "none", Panic, FALSE)
          /\ UNCHANGED <<banned, LIBP2P_PEERS>>
     ELSE IF source \notin connected
     THEN /\ last_event' = Event(PEER_TOPIC, source, "Reject", source, "none", Ok(0), FALSE)
          /\ banned' = banned \cup {source}
          /\ UNCHANGED <<panicked, LIBP2P_PEERS>>
     ELSE IF px.version # 1
     THEN /\ last_event' = Event(PEER_TOPIC, source, "Ignore", "none", "none", Ok(0), FALSE)
          /\ UNCHANGED <<panicked, banned, LIBP2P_PEERS>>
     ELSE /\ last_event' = Event(PEER_TOPIC, source, "Ignore", "none", "none", Ok(0), FALSE)
          /\ LIBP2P_PEERS' = InsertPeers(LIBP2P_PEERS, as_onion_address(source),
                                          PeerArr(px.peers), now)
          /\ UNCHANGED <<panicked, banned>>
  /\ UNCHANGED <<debug_assertions, fee_base, now, ticks, requests_cash, last_cash_clean,
                 ncalls, last_call, calls_log, epoch>>
  /\ UNCHANGED <<log_debug, connected, dialing, subscribed, LIBP2P_MESSAGE_HANDLERS,
                 SEED_LIST, counter, ticker_pc, address_to_connect, nw_connections,
                 examined, ndials, last_dial, nhost>>
  /\ px_observed' =
       IF ~LogPanics(px.version) /\ source \in connected /\ px.version = 1
       THEN [a \in DOMAIN px_observed \cup {as_onion_address(source)} |->
               IF a = as_onion_address(source) THEN PeerArr(px.peers)
               ELSE px_observed[a]]
       ELSE px_observed
  /\ UNCHANGED aux_vars

\* A message of PEER_TOPIC from peer source.
PeerTopicMessage(source, px) ==
  /\ PumpRuns
  /\ nevents < MaxEvents
  /\ nevents' = nevents + 1
  /\ IF LogPanics(px.version)
     THEN /\ panicked' = TRUE
          /\ last_event' = Event(PEER_TOPIC, source, "none", "none", "none", Panic, FALSE)
          /\ UNCHANGED <<banned, LIBP2P_PEERS>>
     ELSE IF source \notin connected
     THEN /\ last_event' = Event(PEER_TOPIC, source, "Reject", source, "none", Ok(0), FALSE)
          /\ banned' = banned \cup {source}
          /\ UNCHANGED <<panicked, LIBP2P_PEERS>>
     ELSE IF px.version # 1
     THEN /\ last_event' = Event(PEER_TOPIC, source, "Ignore", "none", "none", Ok(0), FALSE)
          /\ UNCHANGED <<panicked, banned, LIBP2P_PEERS>>
     ELSE IF px.sz > PEER_EXCHANGE_NUMBER_LIMIT
     THEN /\ last_event' = Event(PEER_TOPIC, source, "Ignore", source, "none", Ok(0), FALSE)
          /\ banned' = banned \cup {source}
          /\ UNCHANGED <<panicked, LIBP2P_PEERS>>
     ELSE /\ last_event' = Event(PEER_TOPIC, source, "Ignore", "none", "none", Ok(0), FALSE)
          /\ LIBP2P_PEERS' = InsertPeers(LIBP2P_PEERS, as_onion_address(source),
                                          PeerArr(px.peers), now)
          /\ UNCHANGED <<panicked, banned>>
  /\ UNCHANGED <<debug_assertions, fee_base, now, ticks, requests_cash, last_cash_clean,
                 ncalls, last_call, calls_log, epoch>>
  /\ UNCHANGED <<log_debug, connected, dialing, subscribed, LIBP2P_MESSAGE_HANDLERS,
                 SEED_LIST, counter, ticker_pc, address_to_connect, nw_connections,
                 examined, ndials, last_dial, nhost>>
  /\ px_observed' =
       IF ~LogPanics(px.version) /\ source \in connected /\ px.version = 1
          /\ px.sz <= PEER_EXCHANGE_NUMBER_LIMIT
       THEN [a \in DOMAIN px_observed \cup {as_onion_address(source)} |->
               IF a = as_onion_address(source) THEN PeerArr(px.peers)
               ELSE px_observed[a]]
       ELSE px_observed
  /\ UNCHANGED aux_vars

\* A verdict that ignores what the handler returns (not the program's).
Acceptance_IgnoresHandler(ret, has_handler, handler_ok) ==
  IF ret.kind = "Err" THEN "Ignore"
  ELSE IF ret.fee > 0 THEN "Accept" ELSE "Reject"

\* The verdict for a message the validator returned ret for: has_handler
\* says whether the topic has a handler, handler_ok what the handler returns.
Acceptance(ret, has_handler, handler_ok) ==
  IF ret.kind = "Err" THEN "Ignore"
  ELSE IF ret.fee > 0
       THEN (IF has_handler /\ ~handler_ok THEN "Reject" ELSE "Accept")
       ELSE "Reject"

\* The handler is looked up and called when the validator returned a fee:
\* what it returned, "none" if it was not called.
HandlerRet(ret, has_handler, handler_ok) ==
  IF ret.kind = "Ok" /\ ret.fee > 0 /\ has_handler
  THEN (IF handler_ok THEN "true" ELSE "false")
  ELSE "none"

\* A message of an application topic from peer source; handler_ok is what
\* the topic's handler returns if it is called.
AppTopicMessage(source, topic, message, lookup, handler_ok) ==
  /\ PumpRuns
  /\ nevents < MaxEvents
  /\ nevents' = nevents + 1
  /\ IF LogPanics(message.version)
     THEN /\ panicked' = TRUE
          /\ last_event' = Event(topic, source, "none", "none", "none", Panic, FALSE)
          /\ UNCHANGED <<requests_cash, ncalls, last_call, calls_log>>
     ELSE /\ Validate(source, message, lookup)
          /\ LET ret == last_call'.ret
                 has_handler == topic \in LIBP2P_MESSAGE_HANDLERS
             IN last_event' =
                  IF ret.kind = "Panic"
                  THEN Event(topic, source, "none", "none", "none", ret, TRUE)
                  ELSE Event(topic, source, Acceptance(ret, has_handler, handler_ok),
                             "none", HandlerRet(ret, has_handler, handler_ok), ret, TRUE)
  /\ UNCHANGED <<debug_assertions, fee_base, now, ticks, last_cash_clean, epoch>>
  /\ UNCHANGED <<log_debug, connected, dialing, banned, subscribed, LIBP2P_PEERS,
                 LIBP2P_MESSAGE_HANDLERS, SEED_LIST, counter, ticker_pc,
                 address_to_connect, nw_connections, examined, ndials, last_dial, nhost>>
  /\ UNCHANGED <<px_observed, aux_vars>>

\* The end of one poll: the history sweep, when it is due.
PumpCleanup ==
  /\ PumpRuns
  /\ CleanupCash
  /\ UNCHANGED node_vars

\* Events of the swarm that the pump's poll drives and the loop ignores: a
\* connection is established (one being dialed, or an inbound one), a
\* connection closes, a dial fails.
ConnectionEstablished(p) ==
  /\ PumpRuns
  /\ p \in Peers /\ p \notin connected /\ p \notin banned
  /\ connected' = connected \cup {p}
  /\ dialing' = dialing \ {p}
  /\ UNCHANGED validator_vars
  /\ UNCHANGED <<log_debug, banned, subscribed, LIBP2P_PEERS, LIBP2P_MESSAGE_HANDLERS,
                 SEED_LIST, counter, ticker_pc, address_to_connect, nw_connections,
                 examined, nevents, last_event, ndials, last_dial, nhost>>
  /\ UNCHANGED <<px_observed, aux_vars>>

ConnectionClosed(p) ==
  /\ PumpRuns
  /\ p \in connected
  /\ connected' = connected \ {p}
  /\ UNCHANGED validator_vars
  /\ UNCHANGED <<log_debug, dialing, banned, subscribed, LIBP2P_PEERS,
                 LIBP2P_MESSAGE_HANDLERS, SEED_LIST, counter, ticker_pc,
                 address_to_connect, nw_connections, examined, nevents, last_event,
                 ndials, last_dial, nhost>>
  /\ UNCHANGED <<px_observed, aux_vars>>

DialFailure(p) ==
  /\ PumpRuns
  /\ p \in dialing
  /\ dialing' = dialing \ {p}
  /\ UNCHANGED validator_vars
  /\ UNCHANGED <<log_debug, connected, banned, subscribed, LIBP2P_PEERS,
                 LIBP2P_MESSAGE_HANDLERS, SEED_LIST, counter, ticker_pc,
                 address_to_connect, nw_connections, examined, nevents, last_event,
                 ndials, last_dial, nhost>>
  /\ UNCHANGED <<px_observed, aux_vars>>

(***************************************************************************)
(* Calls from the host (other threads).                                    *)
(***************************************************************************)
\* add_topic(topic, handler), the swarm being installed.
add_topic(topic) ==
  /\ nhost < MaxHostCalls
  /\ nhost' = nhost + 1
  /\ LIBP2P_MESSAGE_HANDLERS' = LIBP2P_MESSAGE_HANDLERS \cup {topic}
  /\ subscribed' = subscribed \cup {topic}
  /\ UNCHANGED validator_vars
  /\ UNCHANGED <<log_debug, connected, dialing, banned, LIBP2P_PEERS, SEED_LIST, counter,
                 ticker_pc, address_to_connect, nw_connections, examined, nevents,
                 last_event, ndials, last_dial>>
  /\ UNCHANGED <<px_observed, aux_vars>>

\* remove_topic(topic), the swarm being installed.
remove_topic(topic) ==
  /\ nhost < MaxHostCalls
  /\ nhost' = nhost + 1
  /\ LIBP2P_MESSAGE_HANDLERS' = LIBP2P_MESSAGE_HANDLERS \ {topic}
  /\ subscribed' = IF topic \in LIBP2P_MESSAGE_HANDLERS THEN subscribed \ {topic}
                   ELSE subscribed
  /\ UNCHANGED validator_vars
  /\ UNCHANGED <<log_debug, connected, dialing, banned, LIBP2P_PEERS, SEED_LIST, counter,
                 ticker_pc, address_to_connect, nw_connections, examined, nevents,
                 last_event, ndials, last_dial>>
  /\ UNCHANGED <<px_observed, aux_vars>>

\* PeerAddr values the host reports: onion peers (of any string) and an
\* IP peer. PeerAddr::tor_address gives the string of an onion peer and
\* fails on an IP peer.
OnionPeer(a) == [kind |-> "Onion", addr |-> a]
IpPeer == [kind |-> "Ip", addr |-> <<"ip", "">>]
tor_address(peer) ==
  IF peer.kind = "Onion" THEN [ok |-> TRUE, addr |-> peer.addr]
  ELSE [ok |-> FALSE, addr |-> peer.addr]

\* A removal that leaves the list as it is (not the program's).
RemoveAt_KeepsAll(l, i) == l

\* Whether sequence l contains x, and l without its i-th element.
Contains(l, x) == \E i \in 1..Len(l) : l[i] = x
RemoveAt(l, i) == SubSeq(l, 1, i - 1) \o SubSeq(l, i + 1, Len(l))

\* The directory after add_new_peer(peer) at time t.
AddNewPeer(dir, peer, t) ==
  LET a == tor_address(peer) IN
  IF ~a.ok THEN dir
  ELSE IF SELF \in DOMAIN dir
       THEN [dir EXCEPT ![SELF] =
               [peers |-> IF Contains(@.peers, a.addr) THEN @.peers
                          ELSE Append(@.peers, a.addr),
                time |-> t]]
       ELSE [k \in DOMAIN dir \cup {SELF} |->
               IF k = SELF THEN [peers |-> <<a.addr>>, time |-> t] ELSE dir[k]]

\* A loop that stops after the first seed (not the program's).
AddSeeds_FirstOnly(dir, seed_list, t) ==
  IF seed_list = <<>> THEN dir
  ELSE IF Head(seed_list).kind = "Onion" THEN AddNewPeer(dir, Head(seed_list), t) ELSE dir

\* The directory after the loop of set_seed_list over seed_list.
RECURSIVE AddSeeds(_, _, _)
AddSeeds(dir, seed_list, t) ==
  IF seed_list = <<>> THEN dir
  ELSE AddSeeds(IF Head(seed_list).kind = "Onion"
                THEN AddNewPeer(dir, Head(seed_list), t) ELSE dir,
                Tail(seed_list), t)

\* add_new_peer(peer), from the host.
add_new_peer(peer) ==
  /\ nhost < MaxHostCalls
  /\ nhost' = nhost + 1
  /\ LIBP2P_PEERS' = AddNewPeer(LIBP2P_PEERS, peer, now)
  /\ UNCHANGED validator_vars
  /\ UNCHANGED <<log_debug, connected, dialing, banned, subscribed,
                 LIBP2P_MESSAGE_HANDLERS, SEED_LIST, counter, ticker_pc,
                 address_to_connect, nw_connections, examined, nevents, last_event,
                 ndials, last_dial>>
  /\ UNCHANGED <<px_observed, aux_vars>>

\* set_seed_list(seed_list, update_seed_list), from the host.
set_seed_list(seed_list, update_seed_list) ==
  /\ nhost < MaxHostCalls
  /\ nhost' = nhost + 1
  /\ SEED_LIST' = IF update_seed_list THEN seed_list ELSE SEED_LIST
  /\ LIBP2P_PEERS' = AddSeeds(LIBP2P_PEERS, seed_list, now)
  /\ UNCHANGED validator_vars
  /\ UNCHANGED <<log_debug, connected, dialing, banned, subscribed,
                 LIBP2P_MESSAGE_HANDLERS, counter, ticker_pc, address_to_connect,
                 nw_connections, examined, nevents, last_event, ndials, last_dial>>
  /\ UNCHANGED <<px_observed, aux_vars>>

(***************************************************************************)
(* The reconnection task (the second future of run_libp2p_node).           *)
(***************************************************************************)
\* The number of connections the node tries to keep. It stands for the
\* gossip configuration's mesh_n_high().
connections_number_low == 2

\* network_info().connection_counters().num_connections(): established
\* and pending connections.
num_connections == Cardinality(connected \cup dialing)

\* One tick of the one-second interval: every RECONNECT_TICKS-th tick takes
\* the swarm and, below connections_number_low, enters the selection loop.
TickerWake ==
  /\ ~panicked
  /\ ticker_pc = "sleep"
  /\ IF counter + 1 < RECONNECT_TICKS
     THEN /\ counter' = counter + 1
          /\ UNCHANGED <<ticker_pc, address_to_connect, nw_connections, examined>>
     ELSE /\ counter' = 0
          /\ IF num_connections < connections_number_low
             THEN /\ ticker_pc' = "select"
                  /\ address_to_connect' = "none"
                  /\ nw_connections' = num_connections
                  /\ examined' = <<>>
             ELSE UNCHANGED <<ticker_pc, address_to_connect, nw_connections, examined>>
  /\ UNCHANGED validator_vars
  /\ UNCHANGED <<log_debug, connected, dialing, banned, subscribed, LIBP2P_PEERS,
                 LIBP2P_MESSAGE_HANDLERS, SEED_LIST, nevents, last_event, ndials,
                 last_dial, nhost>>
  /\ UNCHANGED <<px_observed, aux_vars>>

\* A check that forgets this node's own identity (not the program's).
AlreadyKnown_WithoutSelf(p) == p \in connected \/ p \in dialing

\* The check before an address is selected.
AlreadyKnown(p) == p \in connected \/ p \in dialing \/ p = this_peer_id

\* One pass of the selection loop: a random key of the directory and a
\* random address of its list, which is removed from the list.
DialerSelect ==
  /\ ~panicked
  /\ ticker_pc = "select"
  /\ IF DOMAIN LIBP2P_PEERS = {}
     THEN /\ ticker_pc' = "finish"
          /\ UNCHANGED <<LIBP2P_PEERS, address_to_connect, examined>>
     ELSE \E peer_id \in DOMAIN LIBP2P_PEERS :
            IF LIBP2P_PEERS[peer_id].peers = <<>>
            THEN /\ LIBP2P_PEERS' = [k \in DOMAIN LIBP2P_PEERS \ {peer_id} |-> LIBP2P_PEERS[k]]
                 /\ UNCHANGED <<ticker_pc, address_to_connect, examined>>
            ELSE \E i \in 1..Len(LIBP2P_PEERS[peer_id].peers) :
                   LET tor_addr == LIBP2P_PEERS[peer_id].peers[i]
                       p == PeerOfAddress(tor_addr)
                   IN /\ LIBP2P_PEERS' =
                           [LIBP2P_PEERS EXCEPT ![peer_id].peers = RemoveAt(@, i)]
                      /\ examined' = Append(examined, tor_addr)
                      /\ IF p.ok /\ ~AlreadyKnown(p.peer)
                         THEN /\ address_to_connect' = p.peer
                              /\ ticker_pc' = "finish"
                         ELSE UNCHANGED <<ticker_pc, address_to_connect>>
  /\ UNCHANGED validator_vars
  /\ UNCHANGED <<log_debug, connected, dialing, banned, subscribed,
                 LIBP2P_MESSAGE_HANDLERS, SEED_LIST, counter, nw_connections, nevents,
                 last_event, ndials, last_dial, nhost>>
  /\ UNCHANGED <<px_observed, aux_vars>>

\* After the loop: the seeds are added again when nothing was selected and
\* the node had no connection, and the selected address is dialed. dial_ok
\* is the result of dial_addr, tracked whether the swarm then reports the
\* peer as being dialed.
DialerFinish(dial_ok, tracked) ==
  /\ ~panicked
  /\ ticker_pc = "finish"
  /\ ndials < MaxDials
  /\ ticker_pc' = "sleep"
  /\ LIBP2P_PEERS' =
       IF address_to_connect = "none" /\ nw_connections = 0
       THEN AddSeeds(LIBP2P_PEERS, SEED_LIST, now)
       ELSE LIBP2P_PEERS
  /\ IF address_to_connect # "none"
     THEN /\ ndials' = ndials + 1
          /\ last_dial' = [peer |-> address_to_connect, examined |-> examined]
          /\ dialing' = IF dial_ok /\ tracked THEN dialing \cup {address_to_connect}
                        ELSE dialing
     ELSE UNCHANGED <<ndials, last_dial, dialing>>
  /\ address_to_connect' = "none"
  /\ UNCHANGED validator_vars
  /\ UNCHANGED <<log_debug, connected, banned, subscribed, LIBP2P_MESSAGE_HANDLERS,
                 SEED_LIST, counter, nw_connections, examined, nevents, last_event, nhost>>
  /\ UNCHANGED <<px_observed, aux_vars>>

(***************************************************************************)
(* SpecPump: the event pump of a running node.                             *)
(***************************************************************************)
InitNode ==
  /\ InitAux(TRUE)
  /\ px_observed = <<>>
  /\ fee_base = 1
  /\ InitCommon
  /\ connected = {}
  /\ dialing = {}
  /\ banned = {}
  /\ LIBP2P_PEERS = <<>>
  /\ SEED_LIST = <<>>
  /\ counter = 0
  /\ ticker_pc = "sleep"
  /\ address_to_connect = "none"
  /\ nw_connections = 0
  /\ examined = <<>>
  /\ nevents = 0
  /\ last_event = NoEvent
  /\ ndials = 0
  /\ last_dial = NoDial
  /\ nhost = 0

\* Topics registered before run are subscribed at startup.
InitPump ==
  /\ InitNode
  /\ debug_assertions \in BOOLEAN
  /\ log_debug \in BOOLEAN
  /\ LIBP2P_MESSAGE_HANDLERS \in {{}, {"T1"}}
  /\ subscribed = LIBP2P_MESSAGE_HANDLERS

\* The clock of the node moves by a short step or past the sweep's period.
NodeDeltas == {14, 601}

TickPump == PumpRuns /\ TickUpTo(MaxNodeTicks, NodeDeltas) /\ UNCHANGED node_vars

NextPump ==
  \/ \E source \in Peers, px \in PxFrames : PeerTopicMessage(source, px)
  \/ \E source \in Peers, topic \in AppTopics, message \in AppFrames,
        lookup \in AppLookups, handler_ok \in BOOLEAN :
       AppTopicMessage(source, topic, message, lookup, handler_ok)
  \/ PumpCleanup
  \/ \E p \in Peers : ConnectionEstablished(p)
  \/ \E p \in Peers : ConnectionClosed(p)
  \/ \E topic \in AppTopics : add_topic(topic)
  \/ \E topic \in AppTopics : remove_topic(topic)
  \/ TickPump

SpecPump == InitPump /\ [][NextPump]_vars

(***************************************************************************)
(* SpecDialer: the reconnection task beside the pump and the host.         *)
(***************************************************************************)
\* Seed lists the host reports, and peers it reports one by one.
SeedLists == {<<OnionPeer(OnionOf(this_peer_id)), OnionPeer(OnionOf("P1"))>>,
              <<IpPeer, OnionPeer(NotOnion), OnionPeer(OnionOf("P2"))>>}
NewPeers == {OnionPeer(OnionOf("P1")), IpPeer}

\* Peer-exchange frames the connected peers publish.
DialerPxFrames == {PxFrame(1, 2, <<PeerBytes(this_peer_id), PeerBytes("P2")>>),
                   PxFrame(1, 1, <<NoDalekPeerBytes>>)}

InitDialer ==
  /\ InitNode
  /\ debug_assertions = FALSE
  /\ log_debug = FALSE
  /\ LIBP2P_MESSAGE_HANDLERS = {}
  /\ subscribed = {}

NextDialer ==
  \/ TickerWake
  \/ DialerSelect
  \/ \E dial_ok \in BOOLEAN, tracked \in BOOLEAN :
       DialerFinish(dial_ok, tracked)
  \/ \E seed_list \in SeedLists, update_seed_list \in BOOLEAN :
       set_seed_list(seed_list, update_seed_list)
  \/ \E peer \in NewPeers : add_new_peer(peer)
  \/ \E source \in Peers, px \in DialerPxFrames : PeerTopicMessage(source, px)
  \/ \E p \in Peers : ConnectionEstablished(p)
  \/ \E p \in Peers : ConnectionClosed(p)
  \/ \E p \in Peers : DialFailure(p)

SpecDialer == InitDialer /\ [][NextDialer]_vars

(***************************************************************************)
(* The integrity envelope: build_integrity_message and read_message_data.  *)
(***************************************************************************)
(* SpecCodec: an envelope is built from its three parts, its version byte  *)
(* may be replaced on the way, and the payload is read back.               *)
(*                                                                         *)
(* SimplePushSerializer and SimplePopSerializer belong to the gossip       *)
(* library.  Their framing is modelled as the specification words it: a    *)
(* version byte, then vectors each preceded by its length, here a 16-bit   *)
(* little-endian number (the width pop_u16 reads for the peer count).      *)
(***************************************************************************)
\* Values of one byte of a part, and the longest payload.
CodecByteValues == {0, 1, 2}
MaxPayloadLen == 2
\* Lengths of the serialized commitment and of the compact signature
\* (33 and 64 bytes in the program).
CommitmentLen == 1
SignatureLen == 2

BYTE_MOD == 256

BytesOfLen(n) == [1..n -> CodecByteValues]
Payloads == UNION {BytesOfLen(n) : n \in 0..MaxPayloadLen}
EnvelopeArgs == [kernel_excess : BytesOfLen(CommitmentLen),
                 signature : BytesOfLen(SignatureLen),
                 message_data : Payloads]

\* SimplePushSerializer::new(version)
SimplePushSerializer_new(version) == <<version>>
\* push_vec: the length, low byte first, then the bytes.
push_vec(buf, v) == buf \o <<Len(v) % BYTE_MOD, Len(v) \div BYTE_MOD>> \o v

build_integrity_message(kernel_excess, signature, message_data) ==
  push_vec(push_vec(push_vec(SimplePushSerializer_new(1), kernel_excess),
                    signature),
           message_data)

\* SimplePopSerializer::new(message): the version byte is read, the cursor
\* stands on the first vector.
SimplePopSerializer_new(message) ==
  [version |-> message[1], data |-> message, pos |-> 2]
VecLen(ser) == ser.data[ser.pos] + BYTE_MOD * ser.data[ser.pos + 1]
skip_vec(ser) == [ser EXCEPT !.pos = @ + 2 + VecLen(ser)]
pop_vec(ser) == SubSeq(ser.data, ser.pos + 2, ser.pos + 1 + VecLen(ser))

PayloadOk(data) == [kind |-> "ok", data |-> data]
PayloadPanic == [kind |-> "panic", data |-> <<>>]

\* read_message_data; dbg tells whether debug_assert! is compiled in.
read_message_data(message, dbg) ==
  LET ser == SimplePopSerializer_new(message)
  IN  IF ser.version # 1
      THEN IF dbg THEN PayloadPanic ELSE PayloadOk(<<>>)
      ELSE PayloadOk(pop_vec(skip_vec(skip_vec(ser))))

\* The wallet builds the envelope.
BuildEnvelope ==
  /\ envelope = <<>>
  /\ envelope' = build_integrity_message(envelope_args.kernel_excess,
                                         envelope_args.signature,
                                         envelope_args.message_data)
  /\ UNCHANGED <<envelope_args, payload_read>>

\* A frame of another format version: the same bytes under version byte v.
ForeignVersion(v) ==
  /\ envelope # <<>>
  /\ envelope[1] = 1
  /\ payload_read = NoRead
  /\ envelope' = [envelope EXCEPT ![1] = v]
  /\ UNCHANGED <<envelope_args, payload_read>>

\* The node reads the payload of the frame.
ReadEnvelope ==
  /\ envelope # <<>>
  /\ payload_read = NoRead
  /\ payload_read' = read_message_data(envelope, debug_assertions)
  /\ UNCHANGED <<envelope_args, envelope>>

InitCodec ==
  /\ InitCommon
  /\ InitNodeOff
  /\ debug_assertions \in BOOLEAN
  /\ fee_base = 1
  /\ envelope_args \in EnvelopeArgs
  /\ envelope = <<>>
  /\ payload_read = NoRead
  /\ InitSync(FALSE)
  /\ dir_items = 0

NextCodec ==
  /\ \/ BuildEnvelope
     \/ \E v \in {0, 2} : ForeignVersion(v)
     \/ ReadEnvelope
  /\ UNCHANGED <<validator_vars, log_debug, connected, dialing, banned,
                 subscribed, LIBP2P_PEERS, LIBP2P_MESSAGE_HANDLERS, SEED_LIST,
                 counter, ticker_pc, address_to_connect, nw_connections,
                 examined, nevents, last_event, ndials, last_dial, nhost,
                 px_observed, sync_vars>>

SpecCodec == InitCodec /\ [][NextCodec]_vars

(***************************************************************************)
(* The mutexes of the module and the tasks that take them.                 *)
(***************************************************************************)
(* SpecSync: the event pump and the reconnection task, which share the     *)
(* thread of run_libp2p_node, beside one thread of the host calling the    *)
(* public functions.  Each step takes or drops one mutex the way the code  *)
(* does; what the tasks compute under the mutexes is left to SpecPump and  *)
(* SpecDialer.  SpecSyncFair adds the scheduling of the tasks.             *)
(***************************************************************************)
\* LIBP2P_SWARM, LIBP2P_PEERS, LIBP2P_MESSAGE_HANDLERS, SEED_LIST.
Mutexes == {"swarm", "peers", "handlers", "seeds"}
\* Most addresses and keys in the directory at a time.
MaxDirItems == 2

Holds(t, m) == \E i \in 1..Len(held[t]) : held[t][i] = m
Free(m) == \A t \in Tasks : ~Holds(t, m)
\* Mutex::lock returning, and a guard going out of scope.
Lock(h, t, m) == [h EXCEPT ![t] = Append(@, m)]
Unlock_KeepsGuard(h, t, m) == h
Unlock(h, t, m) == [h EXCEPT ![t] = SelectSeq(@, LAMBDA x : x # m)]

\* A task is suspended between two polls, or has returned.
PumpSuspended == pump_pc \in {"pending", "done"}
TickerSuspended == ticker_pc \in {"sleep", "done"}

SyncData == <<log_debug, connected, dialing, banned, subscribed, LIBP2P_PEERS,
              LIBP2P_MESSAGE_HANDLERS, SEED_LIST, address_to_connect,
              nw_connections, examined, last_event, ndials, last_dial,
              px_observed, codec_vars, debug_assertions, fee_base, now, ticks,
              requests_cash, last_cash_clean, ncalls, last_call, calls_log,
              epoch, run_pc>>
SyncRest == <<SyncData, handler_call, handler_pos>>

\* ---- the event pump (the poll_fn closure) ----
\* The executor polls the closure.
PumpWake ==
  /\ ~panicked /\ pump_pc = "pending" /\ TickerSuspended
  /\ pump_pc' = "lock_swarm"
  /\ UNCHANGED <<stop_flag, swarm_slot, host_call, host_pos, held, dir_items,
                 ticker_pc, counter, nevents, nhost, panicked, SyncRest>>

\* let mut swarm = LIBP2P_SWARM.lock();
PumpLockSwarm ==
  /\ pump_pc = "lock_swarm" /\ Free("swarm")
  /\ held' = Lock(held, "pump", "swarm")
  /\ pump_pc' = "events"
  /\ UNCHANGED <<stop_flag, swarm_slot, host_call, host_pos, dir_items,
                 ticker_pc, counter, nevents, nhost, panicked, SyncRest>>

\* One turn of the loop over swarm.poll_next_unpin: a peer-exchange message
\* that reaches the insert ("px"), a paid application message ("paid"), a
\* message answered without another mutex ("other"), a message whose
\* version byte is not 1 ("foreign"), or no event left ("none").
PumpEvent(kind) ==
  /\ pump_pc = "events"
  /\ kind # "none" => nevents < MaxEvents
  /\ nevents' = IF kind = "none" THEN nevents ELSE nevents + 1
  /\ IF kind = "foreign" /\ debug_assertions
     THEN \* debug_assert!(false) unwinds the closure and block_on.
          /\ panicked' = TRUE
          /\ pump_pc' = "panicked"
          /\ held' = [held EXCEPT !["pump"] = <<>>]
     ELSE /\ pump_pc' = CASE kind = "px" -> "lock_peers"
                          [] kind = "paid" -> "lock_handlers"
                          [] kind = "none" -> "stop_check"
                          [] OTHER -> "events"
          /\ UNCHANGED <<panicked, held>>
  /\ UNCHANGED <<stop_flag, swarm_slot, host_call, host_pos, dir_items,
                 ticker_pc, counter, nhost, SyncRest>>

\* let mut new_peers_list = LIBP2P_PEERS.lock();
\* LIBP2P_MESSAGE_HANDLERS.lock().get(&message.topic): the guard is a
\* temporary of the if-let and lives as long as its body.
PumpLock(m, at, to) ==
  /\ pump_pc = at /\ Free(m)
  /\ held' = Lock(held, "pump", m)
  /\ pump_pc' = to
  /\ UNCHANGED <<stop_flag, swarm_slot, host_call, host_pos, dir_items,
                 ticker_pc, counter, nevents, nhost, panicked, SyncRest>>

\* The insert into the directory, then the guard's scope ends.
PumpInsert ==
  /\ pump_pc = "in_peers"
  /\ \E n \in 0..MaxDirItems : dir_items' = n
  /\ held' = Unlock(held, "pump", "peers")
  /\ pump_pc' = "events"
  /\ UNCHANGED <<stop_flag, swarm_slot, host_call, host_pos,
                 ticker_pc, counter, nevents, nhost, panicked, SyncRest>>

\* (handler)(..) returns, then the if-let ends.
PumpHandlerReturns ==
  /\ pump_pc = "in_handler" /\ handler_call = "none"
  /\ held' = Unlock(held, "pump", "handlers")
  /\ pump_pc' = "events"
  /\ UNCHANGED <<stop_flag, swarm_slot, host_call, host_pos, dir_items,
                 ticker_pc, counter, nevents, nhost, panicked, SyncRest>>

\* The stop check; the closure returns and the swarm guard is dropped.
PumpStopCheck ==
  /\ pump_pc = "stop_check"
  /\ pump_pc' = IF stop_flag = 0 THEN "done" ELSE "pending"
  /\ held' = Unlock(held, "pump", "swarm")
  /\ UNCHANGED <<stop_flag, swarm_slot, host_call, host_pos, dir_items,
                 ticker_pc, counter, nevents, nhost, panicked, SyncRest>>

\* ---- the reconnection task (the async block) ----
\* interval.tick() completes: the stop check and the counter.
TickerWakes ==
  /\ ~panicked /\ ticker_pc = "sleep" /\ PumpSuspended
  /\ IF stop_flag = 0
     THEN ticker_pc' = "done" /\ UNCHANGED counter
     ELSE IF counter + 1 < RECONNECT_TICKS
          THEN counter' = counter + 1 /\ UNCHANGED ticker_pc
          ELSE counter' = 0 /\ ticker_pc' = "lock_swarm"
  /\ UNCHANGED <<stop_flag, swarm_slot, pump_pc, host_call, host_pos, held,
                 dir_items, nevents, nhost, panicked, SyncRest>>

\* let mut swarm = LIBP2P_SWARM.lock(); then the connection count: low
\* tells whether it is under connections_number_low.
TickerLockSwarm(low) ==
  /\ ticker_pc = "lock_swarm" /\ Free("swarm")
  /\ held' = Lock(held, "ticker", "swarm")
  /\ ticker_pc' = IF low THEN "lock_peers" ELSE "release"
  /\ UNCHANGED <<stop_flag, swarm_slot, pump_pc, host_call, host_pos,
                 dir_items, counter, nevents, nhost, panicked, SyncRest>>

\* let mut libp2p_peers = LIBP2P_PEERS.lock(); in the selection loop, and
\* inside add_new_peer when the seeds are added again.
TickerLockPeers(at, to) ==
  /\ ticker_pc = at /\ Free("peers")
  /\ held' = Lock(held, "ticker", "peers")
  /\ ticker_pc' = to
  /\ UNCHANGED <<stop_flag, swarm_slot, pump_pc, host_call, host_pos,
                 dir_items, counter, nevents, nhost, panicked, SyncRest>>

\* One turn of the selection loop: an address or an emptied key leaves the
\* directory; the turn ends with continue, or with break when an address
\* is kept (found) or no key is left.  The guard is dropped with the turn.
\* zero tells whether the connection count is 0.
TickerDraw(found, zero) ==
  /\ ticker_pc = "in_peers"
  /\ found => dir_items > 0
  /\ dir_items' = IF dir_items > 0 THEN dir_items - 1 ELSE 0
  /\ held' = Unlock(held, "ticker", "peers")
  /\ ticker_pc' = IF found THEN "release"
                  ELSE IF dir_items > 0 THEN "lock_peers"
                  ELSE IF zero THEN "reseed" ELSE "release"
  /\ UNCHANGED <<stop_flag, swarm_slot, pump_pc, host_call, host_pos,
                 counter, nevents, nhost, panicked, SyncRest>>

\* let seed_list = SEED_LIST.lock().clone(); the guard is a temporary of
\* the statement.  onion tells whether the list has an onion seed.
TickerReadSeeds(onion) ==
  /\ ticker_pc = "reseed" /\ Free("seeds")
  /\ ticker_pc' = IF onion THEN "add_seed" ELSE "release"
  /\ UNCHANGED <<stop_flag, swarm_slot, pump_pc, host_call, host_pos, held,
                 dir_items, counter, nevents, nhost, panicked, SyncRest>>

\* add_new_peer stores the seed under "SELF" and returns.
TickerAddSeed ==
  /\ ticker_pc = "in_add"
  /\ dir_items' = IF dir_items < MaxDirItems THEN dir_items + 1 ELSE dir_items
  /\ held' = Unlock(held, "ticker", "peers")
  /\ ticker_pc' = "release"
  /\ UNCHANGED <<stop_flag, swarm_slot, pump_pc, host_call, host_pos,
                 counter, nevents, nhost, panicked, SyncRest>>

\* dial_addr if an address was kept; the turn of the loop ends, the swarm
\* guard is dropped and the task awaits the next tick.
TickerRelease ==
  /\ ticker_pc = "release"
  /\ held' = Unlock(held, "ticker", "swarm")
  /\ ticker_pc' = "sleep"
  /\ UNCHANGED <<stop_flag, swarm_slot, pump_pc, host_call, host_pos,
                 dir_items, counter, nevents, nhost, panicked, SyncRest>>

\* block_on returns when both futures have; reset_libp2p_swarm().
RunReturns ==
  /\ ~panicked /\ pump_pc = "done" /\ ticker_pc = "done"
  /\ swarm_slot /\ Free("swarm")
  /\ swarm_slot' = FALSE
  /\ UNCHANGED <<stop_flag, pump_pc, host_call, host_pos, held, dir_items,
                 ticker_pc, counter, nevents, nhost, panicked, SyncRest>>

\* ---- the host's thread ----
\* What a public function does with the mutexes, in order: "+" takes a
\* mutex, "-" drops its guard.  remove_topic_unknown is remove_topic of a
\* topic without a handler; set_seed_list is the call with
\* update_seed_list and one onion seed.
\* A variant in which add_new_peer asks for the swarm under the directory
\* mutex (not the program's):
Script_SwarmInsideDirectory(call) ==
  CASE call = "add_topic" ->
         <<<<"+", "handlers">>, <<"+", "swarm">>,
           <<"-", "swarm">>, <<"-", "handlers">>>>
    [] call = "remove_topic" ->
         <<<<"+", "handlers">>, <<"+", "swarm">>,
           <<"-", "swarm">>, <<"-", "handlers">>>>
    [] call = "remove_topic_unknown" ->
         <<<<"+", "handlers">>, <<"-", "handlers">>>>
    [] call = "set_seed_list" ->
         <<<<"+", "seeds">>, <<"-", "seeds">>,
           <<"+", "peers">>, <<"-", "peers">>>>
    [] call = "add_new_peer" ->
         <<<<"+", "peers">>, <<"+", "swarm">>,
           <<"-", "swarm">>, <<"-", "peers">>>>
    [] OTHER -> <<<<"+", "swarm">>, <<"-", "swarm">>>>

Script(call) ==
  CASE call = "add_topic" ->
         <<<<"+", "handlers">>, <<"+", "swarm">>,
           <<"-", "swarm">>, <<"-", "handlers">>>>
    [] call = "remove_topic" ->
         <<<<"+", "handlers">>, <<"+", "swarm">>,
           <<"-", "swarm">>, <<"-", "handlers">>>>
    [] call = "remove_topic_unknown" ->
         <<<<"+", "handlers">>, <<"-", "handlers">>>>
    [] call = "set_seed_list" ->
         <<<<"+", "seeds">>, <<"-", "seeds">>,
           <<"+", "peers">>, <<"-", "peers">>>>
    [] call = "add_new_peer" -> <<<<"+", "peers">>, <<"-", "peers">>>>
    [] OTHER -> <<<<"+", "swarm">>, <<"-", "swarm">>>>

HostCalls == {"add_topic", "remove_topic", "remove_topic_unknown",
              "set_seed_list", "add_new_peer", "publish_message",
              "get_libp2p_connections", "get_libp2p_running"}

HostBegins(call) ==
  /\ host_call = "idle" /\ nhost < MaxHostCalls
  /\ host_call' = call /\ host_pos' = 0 /\ nhost' = nhost + 1
  /\ UNCHANGED <<stop_flag, swarm_slot, pump_pc, held, dir_items, ticker_pc,
                 counter, nevents, panicked, SyncRest>>

\* The next lock or drop of the call; the call returns after its last.
HostStep ==
  /\ host_call # "idle"
  /\ LET script == Script(host_call)
         op == script[host_pos + 1]
         m == op[2]
     IN  /\ IF op[1] = "+"
            THEN Free(m) /\ held' = Lock(held, "host", m)
            ELSE held' = Unlock(held, "host", m)
         /\ dir_items' = IF op = <<"-", "peers">> /\ dir_items < MaxDirItems
                         THEN dir_items + 1 ELSE dir_items
         /\ IF host_pos + 1 = Len(script)
            THEN host_call' = "idle" /\ host_pos' = 0
            ELSE host_pos' = host_pos + 1 /\ UNCHANGED host_call
  /\ UNCHANGED <<stop_flag, swarm_slot, pump_pc, ticker_pc, counter, nevents,
                 nhost, panicked, SyncRest>>

\* The topic handler, which the host supplies, calls a public function on
\* the pump's thread.
HandlerCalls(call) ==
  /\ pump_pc = "in_handler" /\ handler_call = "none" /\ nhost < MaxHostCalls
  /\ handler_call' = call /\ handler_pos' = 0 /\ nhost' = nhost + 1
  /\ UNCHANGED <<stop_flag, swarm_slot, pump_pc, host_call, host_pos, held,
                 dir_items, ticker_pc, counter, nevents, panicked, SyncData>>

\* The next lock or drop of that call; the mutexes are not reentrant, so a
\* lock of a mutex the pump holds never returns.
HandlerStep ==
  /\ handler_call # "none"
  /\ LET script == Script(handler_call)
         op == script[handler_pos + 1]
         m == op[2]
     IN  /\ IF op[1] = "+"
            THEN Free(m) /\ held' = Lock(held, "pump", m)
            ELSE held' = Unlock(held, "pump", m)
         /\ dir_items' = IF op = <<"-", "peers">> /\ dir_items < MaxDirItems
                         THEN dir_items + 1 ELSE dir_items
         /\ IF handler_pos + 1 = Len(script)
            THEN handler_call' = "none" /\ handler_pos' = 0
            ELSE handler_pos' = handler_pos + 1 /\ UNCHANGED handler_call
  /\ UNCHANGED <<stop_flag, swarm_slot, pump_pc, host_call, host_pos,
                 ticker_pc, counter, nevents, nhost, panicked, SyncData>>

\* The host writes 0 into the stop mutex.
HostStops ==
  /\ stop_flag = 1
  /\ stop_flag' = 0
  /\ UNCHANGED <<swarm_slot, pump_pc, host_call, host_pos, held, dir_items,
                 ticker_pc, counter, nevents, nhost, panicked, SyncRest>>

InitSyncNode ==
  /\ InitCommon
  /\ InitNodeOff
  /\ debug_assertions \in BOOLEAN
  /\ fee_base = 1
  /\ envelope_args = NoArgs
  /\ envelope = <<>>
  /\ payload_read = NoRead
  /\ InitSync(TRUE)
  /\ dir_items \in 0..MaxDirItems

PumpStep ==
  \/ PumpWake
  \/ PumpLockSwarm
  \/ \E kind \in {"px", "paid", "other", "foreign", "none"} : PumpEvent(kind)
  \/ PumpLock("peers", "lock_peers", "in_peers")
  \/ PumpLock("handlers", "lock_handlers", "in_handler")
  \/ PumpInsert
  \/ \E call \in HostCalls : HandlerCalls(call)
  \/ HandlerStep
  \/ PumpHandlerReturns
  \/ PumpStopCheck

TickerStep ==
  \/ TickerWakes
  \/ \E low \in BOOLEAN : TickerLockSwarm(low)
  \/ TickerLockPeers("lock_peers", "in_peers")
  \/ \E found, zero \in BOOLEAN : TickerDraw(found, zero)
  \/ \E onion \in BOOLEAN : TickerReadSeeds(onion)
  \/ TickerLockPeers("add_seed", "in_add")
  \/ TickerAddSeed
  \/ TickerRelease

NextSync ==
  \/ PumpStep
  \/ TickerStep
  \/ RunReturns
  \/ \E call \in HostCalls : HostBegins(call)
  \/ HostStep
  \/ HostStops

SpecSync == InitSyncNode /\ [][NextSync]_vars

\* future::join polls both futures at every wakeup of the task; the
\* gossip layer's timers and the 1-second interval keep waking it; a call
\* of the host goes on whenever its next mutex is free.
SpecSyncFair ==
  /\ SpecSync
  /\ SF_vars(PumpStep) /\ SF_vars(TickerStep)
  /\ WF_vars(RunReturns) /\ WF_vars(HostStep)

(***************************************************************************)
(* The startup of run_libp2p_node beside add_topic and remove_topic.       *)
(***************************************************************************)
(* SpecStartup: the host registers and removes topics before run, between  *)
(* run's subscribe pass and init_libp2p_swarm, and while the node runs.    *)
(* subscribed holds the subscriptions of the swarm run has built, in the   *)
(* slot or not yet.  Each call and the pass hold the handler table mutex   *)
(* from start to end, so each is one step.                                 *)
(***************************************************************************)
\* Calls of add_topic and remove_topic in a behaviour.
MaxTopicCalls == 4

StartupRest == <<validator_vars, log_debug, connected, dialing, banned,
                 LIBP2P_PEERS, SEED_LIST, counter, ticker_pc,
                 address_to_connect, nw_connections, examined, nevents,
                 last_event, ndials, last_dial, px_observed, codec_vars,
                 stop_flag, pump_pc, host_call, host_pos, held, dir_items,
                 handler_call, handler_pos>>

\* add_topic(topic, handler): the handler is stored; the topic is
\* subscribed if LIBP2P_SWARM holds a swarm.
AddTopic(topic) ==
  /\ nhost < MaxTopicCalls
  /\ nhost' = nhost + 1
  /\ LIBP2P_MESSAGE_HANDLERS' = LIBP2P_MESSAGE_HANDLERS \cup {topic}
  /\ subscribed' = IF swarm_slot THEN subscribed \cup {topic} ELSE subscribed
  /\ UNCHANGED <<swarm_slot, run_pc, StartupRest>>

\* remove_topic(topic): a stored handler is removed; the topic is then
\* unsubscribed if LIBP2P_SWARM holds a swarm.
RemoveTopic(topic) ==
  /\ nhost < MaxTopicCalls
  /\ nhost' = nhost + 1
  /\ LIBP2P_MESSAGE_HANDLERS' = LIBP2P_MESSAGE_HANDLERS \ {topic}
  /\ subscribed' = IF topic \in LIBP2P_MESSAGE_HANDLERS /\ swarm_slot
                   THEN subscribed \ {topic} ELSE subscribed
  /\ UNCHANGED <<swarm_slot, run_pc, StartupRest>>

\* "Subscribe to the topics that we are ready to listen".
RunSubscribes ==
  /\ run_pc = "start"
  /\ subscribed' = subscribed \cup LIBP2P_MESSAGE_HANDLERS
  /\ run_pc' = "built"
  /\ UNCHANGED <<swarm_slot, nhost, LIBP2P_MESSAGE_HANDLERS, StartupRest>>

\* init_libp2p_swarm(swarm);
RunInstalls ==
  /\ run_pc = "built"
  /\ swarm_slot' = TRUE
  /\ run_pc' = "running"
  /\ UNCHANGED <<subscribed, nhost, LIBP2P_MESSAGE_HANDLERS, StartupRest>>

InitStartup ==
  /\ InitCommon
  /\ InitNoNode
  /\ debug_assertions = FALSE
  /\ fee_base = 1

NextStartup ==
  \/ \E topic \in AppTopics : AddTopic(topic)
  \/ \E topic \in AppTopics : RemoveTopic(topic)
  \/ RunSubscribes
  \/ RunInstalls

SpecStartup == InitStartup /\ [][NextStartup]_vars

(***************************************************************************)
(* Claims about validate_integrity_message, checked under SpecValidator.   *)
(***************************************************************************)
\* The signature of call c verifies against the hash of the publisher's
\* PeerId under the public key derived from the frame's kernel_excess.
SignatureVerifies(c) ==
  /\ to_pubkey(c.message.kernel_excess).ok
  /\ c.message.signature.parses
  /\ verify_completed_sig(c.message.signature, to_pubkey(c.message.kernel_excess).pk,
                          HashOfPeer(c.peer_id))

\* The kernel lookup of call c returned a record whose fee is at least
\* ten times fee_base.
FeePaid(c) ==
  /\ c.lookup.kind = "Some"
  /\ c.lookup.fee >= INTEGRITY_FEE_MIN_X * fee_base

\* C1: every call that returns a non-zero fee had a kernel record with a fee
\* of at least 10 x fee_base and a signature that verified for the publisher
\* under the kernel's key, and returns that record's fee.
C1_NonZeroFeeIsPaid ==
  (last_call.ret.kind = "Ok" /\ last_call.ret.fee > 0) =>
    /\ FeePaid(last_call)
    /\ SignatureVerifies(last_call)
    /\ last_call.ret.fee = last_call.lookup.fee

\* C1, where ten times fee_base fits u64: the same statement holds.
C1_NonZeroFeeIsPaidWithoutOverflow ==
  ~FeeFloorOverflows(fee_base) => C1_NonZeroFeeIsPaid

\* Call c fails one of the checks that come before the rate-limit step.
FailsBeforeRateLimit(c) ==
  \/ c.message.version # 1
  \/ ~SignatureVerifies(c)
  \/ c.lookup.kind \in {"Err", "None"}
  \/ ~FeePaid(c)

\* C6: a call that fails before the rate-limit step returns 0, or the
\* lookup's error, and leaves the call history as it was.
C6_EarlyFailureLeavesHistory ==
  [][(ncalls' = ncalls + 1 /\ FailsBeforeRateLimit(last_call')) =>
       /\ last_call'.ret \in {Ok(0), Err}
       /\ (last_call'.ret = Err => last_call'.lookup.kind = "Err")
       /\ requests_cash' = requests_cash]_vars

\* C6 in a release build and with a fee_base whose tenfold fits u64.
C6_EarlyFailureInReleaseWithoutOverflow ==
  [][(ncalls' = ncalls + 1 /\ FailsBeforeRateLimit(last_call')
      /\ ~debug_assertions /\ ~FeeFloorOverflows(fee_base)) =>
       /\ last_call'.ret \in {Ok(0), Err}
       /\ requests_cash' = requests_cash]_vars

(***************************************************************************)
(* Claims about the rate limit, checked under SpecRate.                    *)
(***************************************************************************)
\* The calls of kernel k since its history last was empty.
BurstLen(k) == Len(calls_log[k]) - epoch[k]
BurstCall(k, i) == calls_log[k][epoch[k] + i]

\* Those calls came back-to-back: all within less than one call period.
BackToBack(k) ==
  BurstLen(k) >= 1 =>
    BurstCall(k, BurstLen(k)).t - BurstCall(k, 1).t < INTEGRITY_CALL_MAX_PERIOD

HistoryLen(k) == IF k \in DOMAIN requests_cash THEN Len(requests_cash[k]) ELSE 0

\* C2 as stated: of back-to-back calls on an empty history the first ten
\* return the fee, and the 11th and later ones return 0 with ten timestamps.
C2_EleventhCallRejected ==
  \A k \in Kernels : BackToBack(k) =>
    \A i \in 1..BurstLen(k) :
      IF i <= INTEGRITY_CALL_HISTORY_LEN_LIMIT
      THEN BurstCall(k, i).ret = BurstCall(k, i).fee
      ELSE BurstCall(k, i).ret = 0

\* C2 as amended: the first nine return the fee; the 10th and later ones
\* return 0, the history holding ten timestamps.
C2_TenthCallRejected ==
  \A k \in Kernels : BackToBack(k) =>
    /\ \A i \in 1..BurstLen(k) :
         IF i < INTEGRITY_CALL_HISTORY_LEN_LIMIT
         THEN BurstCall(k, i).ret = BurstCall(k, i).fee
         ELSE BurstCall(k, i).ret = 0
    /\ BurstLen(k) >= INTEGRITY_CALL_HISTORY_LEN_LIMIT =>
         HistoryLen(k) = INTEGRITY_CALL_HISTORY_LEN_LIMIT

C2_Witness ==
  \E k \in Kernels :
    /\ BackToBack(k)
    /\ BurstLen(k) = INTEGRITY_CALL_HISTORY_LEN_LIMIT + 1
    /\ BurstCall(k, BurstLen(k)).ret = 0
    /\ BurstCall(k, 1).ret > 0

\* C3: after the i-th back-to-back call on an empty history the kernel's
\* history holds i timestamps and the call returned the fee, for i up to 9;
\* from the 10th on it holds 10 and the call returned 0.
C3_NineCallsPaid ==
  \A k \in Kernels : (BackToBack(k) /\ BurstLen(k) >= 1) =>
    LET i == BurstLen(k) IN
    IF i <= INTEGRITY_CALL_HISTORY_LEN_LIMIT - 1
    THEN HistoryLen(k) = i /\ BurstCall(k, i).ret = BurstCall(k, i).fee
                           /\ BurstCall(k, i).ret > 0
    ELSE HistoryLen(k) = INTEGRITY_CALL_HISTORY_LEN_LIMIT /\ BurstCall(k, i).ret = 0

C3_Witness ==
  \E k \in Kernels :
    /\ BackToBack(k)
    /\ BurstLen(k) > INTEGRITY_CALL_HISTORY_LEN_LIMIT
    /\ HistoryLen(k) = INTEGRITY_CALL_HISTORY_LEN_LIMIT
    /\ BurstCall(k, INTEGRITY_CALL_HISTORY_LEN_LIMIT - 1).ret > 0
    /\ BurstCall(k, INTEGRITY_CALL_HISTORY_LEN_LIMIT).ret = 0

\* The calls of kernel k before its n-th that returned a non-zero fee
\* at most w seconds before the n-th.
PaidWithin(k, n, w) ==
  {m \in 1..(n - 1) : /\ calls_log[k][m].ret > 0
                      /\ calls_log[k][m].t >= calls_log[k][n].t - w}

\* C4 as stated: after 10 calls that returned a fee within the last 150
\* seconds the next call of the kernel returns 0.
C4_TenPaidIn150Seconds ==
  \A k \in Kernels : \A n \in 1..Len(calls_log[k]) :
    Cardinality(PaidWithin(k, n, INTEGRITY_CALL_HISTORY_LEN_LIMIT * INTEGRITY_CALL_MAX_PERIOD))
        >= INTEGRITY_CALL_HISTORY_LEN_LIMIT
      => calls_log[k][n].ret = 0

\* C4 as amended: after 9 calls that returned a fee less than 135 seconds
\* (nine call periods) ago the next call of the kernel returns 0.
C4_NinePaidIn134Seconds ==
  \A k \in Kernels : \A n \in 1..Len(calls_log[k]) :
    Cardinality(PaidWithin(k, n, (INTEGRITY_CALL_HISTORY_LEN_LIMIT - 1) * INTEGRITY_CALL_MAX_PERIOD - 1))
        >= INTEGRITY_CALL_HISTORY_LEN_LIMIT - 1
      => calls_log[k][n].ret = 0

C4_Witness ==
  \E k \in Kernels : \E n \in 1..Len(calls_log[k]) :
    /\ Cardinality(PaidWithin(k, n, (INTEGRITY_CALL_HISTORY_LEN_LIMIT - 1) * INTEGRITY_CALL_MAX_PERIOD - 1))
         >= INTEGRITY_CALL_HISTORY_LEN_LIMIT - 1
    /\ calls_log[k][n].t > calls_log[k][1].t
    /\ calls_log[k][n].ret = 0

\* C5: when a call of the kernel has returned 0 (its history saturated) and
\* the next call of that kernel comes 150 seconds later or more, that call
\* returns the kernel's fee.
C5_QuotaRecovers ==
  \A k \in Kernels : \A n \in 2..Len(calls_log[k]) :
    (/\ calls_log[k][n - 1].ret = 0
     /\ calls_log[k][n].t - calls_log[k][n - 1].t
          >= INTEGRITY_CALL_HISTORY_LEN_LIMIT * INTEGRITY_CALL_MAX_PERIOD)
      => (calls_log[k][n].ret = calls_log[k][n].fee /\ calls_log[k][n].ret > 0)

\* A rejected call, 150 seconds and no sweep of the kernel, a paid call.
C5_Witness ==
  \E k \in Kernels :
    LET n == Len(calls_log[k]) IN
    /\ n >= 2
    /\ epoch[k] = 0
    /\ HistoryLen(k) = INTEGRITY_CALL_HISTORY_LEN_LIMIT
    /\ calls_log[k][n - 1].ret = 0
    /\ calls_log[k][n].t - calls_log[k][n - 1].t
         = INTEGRITY_CALL_HISTORY_LEN_LIMIT * INTEGRITY_CALL_MAX_PERIOD
    /\ calls_log[k][n].ret > 0

\* C7: every history holds at most 10 timestamps, oldest first.
C7_HistoryBoundedAndOrdered ==
  \A k \in DOMAIN requests_cash :
    /\ Len(requests_cash[k]) <= INTEGRITY_CALL_HISTORY_LEN_LIMIT
    /\ \A i \in 1..Len(requests_cash[k]) : \A j \in i..Len(requests_cash[k]) :
         requests_cash[k][i] <= requests_cash[k][j]

\* A full history spanning a clock advance, after a sweep, whose last call
\* was rejected for exceeding the rate limit.
C7_Witness ==
  \E k \in DOMAIN requests_cash :
    /\ Len(requests_cash[k]) = INTEGRITY_CALL_HISTORY_LEN_LIMIT
    /\ requests_cash[k][1] < requests_cash[k][INTEGRITY_CALL_HISTORY_LEN_LIMIT]
    /\ last_cash_clean > StartTime
    /\ last_call.message.kernel_excess = k
    /\ last_call.recorded /\ last_call.ret = Ok(0)

(***************************************************************************)
(* Claims about the event pump, checked under SpecPump.                    *)
(***************************************************************************)
\* The verdict C8 gives for the validator's result ret and the handler's
\* result handler_ret ("none" when no handler was called).
C8_Verdict(ret, handler_ret) ==
  IF ret.kind = "Err" THEN "Ignore"
  ELSE IF ret.fee = 0 THEN "Reject"
  ELSE IF handler_ret = "false" THEN "Reject"
  ELSE "Accept"

\* C8: the verdict of a message of an application topic is Ignore when the
\* kernel lookup returned an error, Reject when the validator returned 0,
\* Reject when it returned a fee and the topic's handler returned false, and
\* Accept otherwise; the handler is called only after a non-zero fee.
C8_VerdictFollowsValidator ==
  (last_event.validated /\ last_event.ret.kind # "Panic") =>
    /\ last_event.ret = last_call.ret
    /\ last_event.verdict = C8_Verdict(last_event.ret, last_event.handler_ret)
    /\ (last_event.ret.kind = "Err") =
         (last_call.message.version = 1 /\ SignatureVerifies(last_call)
            /\ last_call.lookup = LookupErr)
    /\ last_event.handler_ret # "none" =>
         (last_event.ret.kind = "Ok" /\ last_event.ret.fee > 0)
    /\ last_event.disconnected = "none"

\* A message that paid its fee and whose handler returned false.
C8_Witness ==
  /\ last_event.validated
  /\ last_event.topic \in AppTopics
  /\ last_event.ret.kind = "Ok" /\ last_event.ret.fee > 0
  /\ last_event.handler_ret = "false"
  /\ last_event.verdict = "Reject"

\* C9: a PEER_TOPIC message whose source is not connected is answered with
\* Reject and disconnect_peer(source, ban), and leaves the directory as it
\* was, whatever its payload.
C9_UnconnectedSourceRejected ==
  [][(/\ nevents' = nevents + 1
      /\ last_event'.topic = PEER_TOPIC
      /\ last_event'.source \notin connected)
       => (/\ last_event'.verdict = "Reject"
           /\ last_event'.disconnected = last_event'.source
           /\ last_event'.source \in banned'
           /\ LIBP2P_PEERS' = LIBP2P_PEERS)]_vars

\* The same, for the messages whose log record does not panic; the
\* directory is left as it was in either case.
C9_UnconnectedSourceRejectedOrPanics ==
  [][(/\ nevents' = nevents + 1
      /\ last_event'.topic = PEER_TOPIC
      /\ last_event'.source \notin connected)
       => (/\ LIBP2P_PEERS' = LIBP2P_PEERS
           /\ \/ last_event'.ret = Panic /\ debug_assertions /\ log_debug
              \/ /\ last_event'.verdict = "Reject"
                 /\ last_event'.disconnected = last_event'.source
                 /\ last_event'.source \in banned')]_vars

(***************************************************************************)
(* Claims about the reconnection task, checked under SpecDialer.           *)
(***************************************************************************)
\* C10: dial_addr is never issued for this node's own PeerId, for a
\* connected peer or for a peer being dialed, whatever the directory holds.
C10_NeverDialsKnownPeer ==
  [][ndials' = ndials + 1 =>
       /\ last_dial'.peer # this_peer_id
       /\ last_dial'.peer \notin connected
       /\ last_dial'.peer \notin dialing]_vars

\* A dial that came after the selection loop had drawn this node's own
\* address and the address of a connected peer.
C10_Witness ==
  /\ ndials >= 1
  /\ last_dial.peer \in Peers
  /\ \E i \in 1..Len(last_dial.examined) : last_dial.examined[i] = OnionOf(this_peer_id)
  /\ \E i \in 1..Len(last_dial.examined) :
       /\ PeerOfAddress(last_dial.examined[i]).ok
       /\ PeerOfAddress(last_dial.examined[i]).peer \in connected
       /\ PeerOfAddress(last_dial.examined[i]).peer # last_dial.peer

(***************************************************************************)
(* Further claims about the event pump, checked under SpecPump.            *)
(***************************************************************************)
\* C14: every message gets a verdict (or, for a peer-exchange message of a
\* peer that is not connected, a disconnect), and no message, however
\* malformed, ends the event loop.
C14_EveryMessageAnsweredLoopGoesOn ==
  [][nevents' = nevents + 1 =>
       /\ ~panicked'
       /\ last_event'.verdict \in {"Accept", "Reject", "Ignore"}
            \/ last_event'.disconnected = last_event'.source]_vars

\* C14 where no debug assertion can fire: a release build.
C14_EveryMessageAnsweredInRelease ==
  [][(nevents' = nevents + 1 /\ ~debug_assertions) =>
       /\ ~panicked'
       /\ last_event'.verdict \in {"Accept", "Reject", "Ignore"}]_vars

\* The frame px does not decode: its version is not 1 or its count is
\* above the limit.
FailsToDecode(px) == px.version # 1 \/ px.sz > PEER_EXCHANGE_NUMBER_LIMIT

\* C16 as stated: a PEER_TOPIC message of a connected peer that fails to
\* decode gets its source disconnected and banned and leaves the directory
\* as it was.
C16_UndecodableFrameBans ==
  [][\A source \in Peers, px \in PxFrames :
       (PeerTopicMessage(source, px) /\ source \in connected /\ FailsToDecode(px)) =>
         /\ last_event'.disconnected = source
         /\ source \in banned'
         /\ LIBP2P_PEERS' = LIBP2P_PEERS]_vars

\* C16 as amended: a count above the limit gets the source disconnected and
\* banned; a version other than 1 is dropped without a disconnect or a ban;
\* both leave the directory as it was.
C16_OversizedBansForeignVersionDropped ==
  [][\A source \in Peers, px \in PxFrames :
       (PeerTopicMessage(source, px) /\ source \in connected /\ FailsToDecode(px)) =>
         /\ LIBP2P_PEERS' = LIBP2P_PEERS
         /\ IF px.version # 1
            THEN last_event'.disconnected = "none" /\ banned' = banned
            ELSE last_event'.disconnected = source /\ source \in banned']_vars

\* An oversized frame of a connected peer was handled.
C16_Witness ==
  /\ last_event.topic = PEER_TOPIC
  /\ last_event.source \in connected
  /\ last_event.verdict = "Ignore"
  /\ last_event.disconnected = last_event.source
  /\ last_event.source \in banned

(***************************************************************************)
(* Further claims about the rate limit, checked under SpecRate.            *)
(***************************************************************************)
\* What a validation of kernel k by publisher p would return and leave in
\* the current state.
WouldValidate(k, p) ==
  validate_integrity_message(p, ValidFrame(k, p), LookupSome(PaidFee(k)),
                             requests_cash, fee_base, now, debug_assertions)

\* C15: with valid signatures the result of a validation and the history
\* it leaves depend on the kernel and the time only, not on the publisher:
\* publishers that use one kernel share its history and its quota.
C15_QuotaSharedByPublishers ==
  \A k \in Kernels : \A p1 \in Peers, p2 \in Peers :
    /\ WouldValidate(k, p1).ret = WouldValidate(k, p2).ret
    /\ WouldValidate(k, p1).cash = WouldValidate(k, p2).cash

\* One publisher's call was just rejected by the rate limit, and a call of
\* the other publisher on the same kernel would be rejected too.
C15_Witness ==
  \E p \in Peers \ {last_call.peer_id} :
    /\ last_call.recorded /\ last_call.ret = Ok(0)
    /\ WouldValidate(last_call.message.kernel_excess, p).ret = Ok(0)
    /\ \E k \in Kernels \ {last_call.message.kernel_excess} :
         WouldValidate(k, p).ret.fee > 0

(***************************************************************************)
(* Further claims about the reconnection task, checked under SpecDialer.   *)
(***************************************************************************)
\* The step that ends a reconnection inspection.
InspectionEnds == ticker_pc = "finish" /\ ticker_pc' = "sleep"

\* The addresses of the onion seeds of SEED_LIST.
OnionSeeds == {SEED_LIST[i].addr : i \in {j \in 1..Len(SEED_LIST) : SEED_LIST[j].kind = "Onion"}}

SelfList(dir) == IF SELF \in DOMAIN dir THEN dir[SELF].peers ELSE <<>>
SeqRange(l) == {l[i] : i \in 1..Len(l)}

\* C18: an inspection that found the directory empty, with no connection,
\* puts every onion seed of the seed list under "SELF", skips the other
\* seeds and leaves SEED_LIST; with a connection, or with an address to
\* dial, the directory is not re-seeded.
C18_ReseedWhenEmptyAndUnconnected ==
  [][InspectionEnds =>
       /\ SEED_LIST' = SEED_LIST
       /\ (DOMAIN LIBP2P_PEERS = {} /\ nw_connections = 0 /\ address_to_connect = "none") =>
            /\ SeqRange(SelfList(LIBP2P_PEERS')) = OnionSeeds
            /\ DOMAIN LIBP2P_PEERS' \subseteq {SELF}
       /\ (nw_connections # 0 \/ address_to_connect # "none") =>
            LIBP2P_PEERS' = LIBP2P_PEERS]_vars

\* After a dial had taken a seed, an inspection found the directory empty
\* and no connection, and the seed list, which holds onion and other seeds,
\* was put back under "SELF".
C18_Witness ==
  /\ ticker_pc = "sleep"
  /\ counter = 0
  /\ examined = <<>>
  /\ nw_connections = 0
  /\ ndials >= 1
  /\ \E i \in 1..Len(SEED_LIST) : SEED_LIST[i].kind # "Onion"
  /\ OnionSeeds # {}
  /\ SeqRange(SelfList(LIBP2P_PEERS)) = OnionSeeds

(***************************************************************************)
(* Claims about the peer directory, checked under SpecDialer.              *)
(***************************************************************************)
\* The publishers of the directory: every key but "SELF".
Publishers(dir) == DOMAIN dir \ {SELF}

\* C11: every publisher's list in the directory is the list of that
\* publisher's last peer-exchange message, and no key has an empty list.
C11_DirectoryHoldsLastLists ==
  /\ \A k \in Publishers(LIBP2P_PEERS) :
       k \in DOMAIN px_observed /\ LIBP2P_PEERS[k].peers = px_observed[k]
  /\ \A k \in DOMAIN LIBP2P_PEERS : LIBP2P_PEERS[k].peers # <<>>

\* Sequence l is sequence m with some of its elements taken out.
RECURSIVE IsSubSeq(_, _)
IsSubSeq(l, m) ==
  IF l = <<>> THEN TRUE
  ELSE IF m = <<>> THEN FALSE
  ELSE IF Head(l) = Head(m) THEN IsSubSeq(Tail(l), Tail(m))
  ELSE IsSubSeq(l, Tail(m))

\* C11 as amended: every publisher's list is what is left, in order, of the
\* list of its last peer-exchange message after the addresses the dialer
\* drew were taken out; a list may be empty.
C11_DirectoryHoldsRestOfLastLists ==
  \A k \in Publishers(LIBP2P_PEERS) :
    k \in DOMAIN px_observed /\ IsSubSeq(LIBP2P_PEERS[k].peers, px_observed[k])

\* After two gossip messages, the later one from this publisher, the dialer
\* drew one of the two addresses of the publisher's last frame.
C11_Witness ==
  \E k \in Publishers(LIBP2P_PEERS) :
    /\ Len(px_observed[k]) = 2
    /\ Len(LIBP2P_PEERS[k].peers) = 1
    /\ nevents >= 2
    /\ last_event.source = PeerOfAddress(k).peer
    /\ examined # <<>>

(***************************************************************************)
(* Claims about the integrity envelope, checked under SpecCodec.           *)
(***************************************************************************)
\* C12: reading the payload of a built envelope returns exactly the payload
\* it was built from, and reading a frame whose version byte is not 1
\* returns the empty payload.
C12_RoundTripForeignVersionEmpty ==
  payload_read # NoRead =>
    /\ payload_read.kind = "ok"
    /\ envelope[1] = 1 => payload_read.data = envelope_args.message_data
    /\ envelope[1] # 1 => payload_read.data = <<>>

\* C12 in a build without debug assertions: the round trip returns the
\* payload, a foreign version the empty payload; with debug assertions the
\* round trip holds and a foreign version panics.
C12_RoundTripForeignVersionEmptyInRelease ==
  payload_read # NoRead =>
    /\ envelope[1] = 1 => payload_read = PayloadOk(envelope_args.message_data)
    /\ envelope[1] # 1 =>
         payload_read = IF debug_assertions THEN PayloadPanic ELSE PayloadOk(<<>>)

\* A payload of two bytes was read back from its envelope.
C12_Witness ==
  /\ envelope # <<>>
  /\ envelope[1] = 1
  /\ Len(envelope_args.message_data) = MaxPayloadLen
  /\ payload_read = PayloadOk(envelope_args.message_data)

(***************************************************************************)
(* Claims about the mutexes and the tasks, checked under SpecSync.         *)
(***************************************************************************)
\* The mutex a task is about to take, "none" if its next step takes none.
WaitsFor(t) ==
  CASE t = "pump" ->
         (CASE pump_pc = "lock_swarm" -> "swarm"
            [] pump_pc = "lock_peers" -> "peers"
            [] pump_pc = "lock_handlers" -> "handlers"
            [] handler_call # "none"
               /\ Script(handler_call)[handler_pos + 1][1] = "+" ->
                 Script(handler_call)[handler_pos + 1][2]
            [] OTHER -> "none")
    [] t = "ticker" ->
         (CASE ticker_pc = "lock_swarm" -> "swarm"
            [] ticker_pc \in {"lock_peers", "add_seed"} -> "peers"
            [] ticker_pc = "reseed" -> "seeds"
            [] OTHER -> "none")
    [] OTHER ->
         IF host_call # "idle" /\ Script(host_call)[host_pos + 1][1] = "+"
         THEN Script(host_call)[host_pos + 1][2]
         ELSE "none"

\* Two tasks each hold one of the mutexes a, b and wait for the other.
CyclicWait(a, b) ==
  \E t, u \in Tasks :
    /\ t # u
    /\ Holds(t, a) /\ WaitsFor(t) = b
    /\ Holds(u, b) /\ WaitsFor(u) = a

\* C17: at the moment the pump invokes a topic handler it does not hold the
\* mutex of the handler table.
C17_HandlerInvokedWithoutTableMutex ==
  pump_pc = "in_handler" => ~Holds("pump", "handlers")

\* C19: a task that holds the swarm mutex and the directory mutex together
\* took the swarm mutex first, and no two tasks wait for each other over
\* these two mutexes.
C19_SwarmBeforeDirectory ==
  /\ \A t \in Tasks :
       \A i, j \in 1..Len(held[t]) :
         held[t][i] = "peers" /\ held[t][j] = "swarm" => j < i
  /\ ~CyclicWait("swarm", "peers")

\* The reconnection task adds the seeds again under both mutexes while a
\* call of the host waits for the directory.
C19_Witness ==
  /\ ticker_pc = "in_add"
  /\ held["ticker"] = <<"swarm", "peers">>
  /\ WaitsFor("host") = "peers"

\* C20: a task that is suspended, or has returned, holds no swarm mutex,
\* the two tasks never run at once, and while one runs the other does not
\* hold the swarm mutex.
C20_NoSwarmGuardAcrossSuspension ==
  /\ pump_pc \in {"pending", "done", "panicked"} => ~Holds("pump", "swarm")
  /\ ticker_pc \in {"sleep", "done"} => ~Holds("ticker", "swarm")
  /\ PumpSuspended \/ TickerSuspended
  /\ ~PumpSuspended => ~Holds("ticker", "swarm")
  /\ ~TickerSuspended => ~Holds("pump", "swarm")

\* The pump has handled a message and returned Pending; the reconnection
\* task now runs under the swarm mutex.
C20_Witness ==
  /\ pump_pc = "pending"
  /\ nevents >= 1
  /\ Holds("ticker", "swarm")
  /\ held["pump"] = <<>>

\* C13: once the stop flag reads zero both tasks return and the swarm slot
\* is then cleared, and the slot is never cleared while a task still runs.
C13_StopClearsSlot ==
  /\ [](~swarm_slot => pump_pc = "done" /\ ticker_pc = "done")
  /\ (stop_flag = 0) ~> ~swarm_slot

\* A task waits for a mutex it holds itself.
SelfWait(t) == WaitsFor(t) # "none" /\ Holds(t, WaitsFor(t))

\* C13 apart from the ways the node gets stuck: a panic of the pump, the
\* pump and a call of the host waiting for each other over the swarm and
\* the handler table, and a handler waiting for a mutex the pump holds.
C13_StopClearsSlotUnlessStuck ==
  /\ [](~swarm_slot => pump_pc = "done" /\ ticker_pc = "done")
  /\ (stop_flag = 0) ~>
       (\/ ~swarm_slot
        \/ panicked
        \/ CyclicWait("swarm", "handlers")
        \/ SelfWait("pump"))

(***************************************************************************)
(* Claims about the history sweep, checked under SpecRate.                 *)
(***************************************************************************)
\* The newest timestamp of kernel k in the call history.
Newest(cash, k) == cash[k][Len(cash[k])]

\* C21: a sweep runs only when more than 600 seconds have passed since the
\* previous one; it removes exactly the kernels whose newest timestamp is
\* not newer than now - 150 and leaves the other histories as they are;
\* no step other than a sweep removes a kernel.
C21_SweepRemovesExpiredOnly ==
  [][/\ last_cash_clean' # last_cash_clean =>
          /\ now - last_cash_clean > CASH_CLEAN_PERIOD
          /\ last_cash_clean' = now
          /\ DOMAIN requests_cash' =
               {k \in DOMAIN requests_cash :
                  ~(Newest(requests_cash, k) <= now - 150)}
          /\ \A k \in DOMAIN requests_cash' :
               requests_cash'[k] = requests_cash[k]
     /\ last_cash_clean' = last_cash_clean =>
          DOMAIN requests_cash \subseteq DOMAIN requests_cash'
    ]_vars

\* A sweep has removed a kernel whose newest call was exactly 150 s old.
C21_Witness ==
  /\ last_cash_clean = now
  /\ last_cash_clean > StartTime
  /\ \E k \in Kernels :
       /\ calls_log[k] # <<>>
       /\ calls_log[k][Len(calls_log[k])].t = now - 150
       /\ k \notin DOMAIN requests_cash

(***************************************************************************)
(* Further claims about the event pump, checked under SpecPump.            *)
(***************************************************************************)
\* The onion strings of the inner PeerIds of a frame that carry an ed25519
\* key, in the order of the frame.
ValidOnions(l) ==
  LET valid == SelectSeq(l, LAMBDA b : b.decodes /\ b.dalek)
  IN  [i \in 1..Len(valid) |-> OnionOf(valid[i].peer)]

\* C22: a peer-exchange message of version 1 with a count within the limit
\* from a connected peer gets Ignore and sets the publisher's directory
\* entry to the onion strings of its valid inner PeerIds, in order, with
\* the current time; a previous list is overwritten and every other key
\* stays as it was.
C22_WellFormedFrameSetsEntry ==
  [][\A source \in Peers, px \in PxFrames :
       (/\ PeerTopicMessage(source, px)
        /\ source \in connected
        /\ px.version = 1
        /\ px.sz <= PEER_EXCHANGE_NUMBER_LIMIT) =>
         /\ last_event'.verdict = "Ignore"
         /\ last_event'.disconnected = "none"
         /\ DOMAIN LIBP2P_PEERS' = DOMAIN LIBP2P_PEERS \cup {OnionOf(source)}
         /\ LIBP2P_PEERS'[OnionOf(source)] =
              [peers |-> ValidOnions(px.peers), time |-> now]
         /\ \A a \in DOMAIN LIBP2P_PEERS \ {OnionOf(source)} :
              LIBP2P_PEERS'[a] = LIBP2P_PEERS[a]]_vars

\* Two publishers have entries; the later frame carried this node's PeerId
\* and a PeerId without an ed25519 key.
C22_Witness ==
  /\ nevents = 2
  /\ last_event.topic = PEER_TOPIC
  /\ last_event.verdict = "Ignore"
  /\ last_event.disconnected = "none"
  /\ last_event.source \in connected
  /\ Cardinality(DOMAIN LIBP2P_PEERS) = 2
  /\ OnionOf(last_event.source) \in DOMAIN LIBP2P_PEERS
  /\ LIBP2P_PEERS[OnionOf(last_event.source)] =
       [peers |-> <<OnionOf(this_peer_id)>>, time |-> now]

(***************************************************************************)
(* A further claim about the mutexes, checked under SpecSync.              *)
(***************************************************************************)
\* C23: the pump never holds the swarm mutex and waits for the handler
\* table while a call of the host holds the handler table and waits for
\* the swarm, and a handler that calls publish_message or add_topic is
\* not left waiting for a mutex the pump itself holds.
C23_NoSwarmHandlersDeadlock ==
  /\ ~(/\ Holds("pump", "swarm") /\ WaitsFor("pump") = "handlers"
       /\ Holds("host", "handlers") /\ WaitsFor("host") = "swarm")
  /\ handler_call \in {"publish_message", "add_topic"} => ~SelfWait("pump")

\* C23 for the calls that take neither of the two mutexes: a handler that
\* calls add_new_peer or set_seed_list returns, and the pump and the host
\* never wait for each other over another pair of mutexes.
C23_DirectoryCallsDoNotBlock ==
  /\ handler_call \in {"add_new_peer", "set_seed_list"} => ~SelfWait("pump")
  /\ \A a, b \in Mutexes :
       CyclicWait(a, b) => {a, b} = {"swarm", "handlers"}

(***************************************************************************)
(* A claim about the subscriptions, checked under SpecStartup.             *)
(***************************************************************************)
\* C24: whenever the swarm is in the process-wide slot, the topics it is
\* subscribed to are the keys of the handler table.
C24_SubscribedAreHandlerKeys ==
  swarm_slot => subscribed = LIBP2P_MESSAGE_HANDLERS

\* C24 apart from the calls between the subscribe pass and the
\* installation: the pass subscribes the topics registered before it, and
\* while the swarm is in the slot a call keeps the two sets equal.
C24_EqualAfterPassKeptWhileInstalled ==
  [][/\ run_pc = "start" /\ run_pc' = "built" =>
          subscribed' = LIBP2P_MESSAGE_HANDLERS
     /\ swarm_slot /\ subscribed = LIBP2P_MESSAGE_HANDLERS =>
          subscribed' = LIBP2P_MESSAGE_HANDLERS'
    ]_vars

\* A topic registered before run is subscribed in the installed swarm.
C24_Witness ==
  /\ swarm_slot
  /\ run_pc = "running"
  /\ subscribed = LIBP2P_MESSAGE_HANDLERS
  /\ subscribed # {}
  /\ nhost = 1

(***************************************************************************)
(* A further claim about the reconnection task, checked under SpecDialer.  *)
(***************************************************************************)
\* The number of addresses plus the number of keys of a directory.
RECURSIVE SizeOver(_, _)
SizeOver(dir, keys) ==
  IF keys = {} THEN 0
  ELSE LET k == CHOOSE x \in keys : TRUE
       IN  1 + Len(dir[k].peers) + SizeOver(dir, keys \ {k})
DirSize(dir) == SizeOver(dir, DOMAIN dir)

\* How often x occurs in the lists of a directory.
RECURSIVE OccOver(_, _, _)
OccOver(dir, keys, x) ==
  IF keys = {} THEN 0
  ELSE LET k == CHOOSE y \in keys : TRUE
       IN  Cardinality({i \in 1..Len(dir[k].peers) : dir[k].peers[i] = x})
           + OccOver(dir, keys \ {k}, x)
Occurrences(dir, x) == OccOver(dir, DOMAIN dir, x)

\* C25: every turn of the selection loop ends the loop or makes the number
\* of addresses plus keys of the directory strictly smaller; the loop ends
\* without an address only on an empty directory; an inspection calls
\* dial_addr at most once; every address examined leaves the directory,
\* dialed or not.
C25_SelectionLoopTerminates ==
  [][/\ DialerSelect =>
          /\ ticker_pc' = "finish" \/ DirSize(LIBP2P_PEERS') < DirSize(LIBP2P_PEERS)
          /\ ticker_pc' = "finish" /\ address_to_connect' = "none" =>
               DOMAIN LIBP2P_PEERS = {}
          /\ examined' # examined =>
               /\ Len(examined') = Len(examined) + 1
               /\ Occurrences(LIBP2P_PEERS', examined'[Len(examined')]) =
                    Occurrences(LIBP2P_PEERS, examined'[Len(examined')]) - 1
               /\ DirSize(LIBP2P_PEERS') = DirSize(LIBP2P_PEERS) - 1
     /\ ndials' # ndials =>
          /\ ndials' = ndials + 1
          /\ ticker_pc = "finish" /\ ticker_pc' = "sleep"
          /\ last_dial'.peer = address_to_connect
          /\ last_dial'.examined # <<>>
          /\ PeerOfAddress(examined[Len(examined)]).peer = address_to_connect
    ]_vars

\* The loop ended with an address after a turn that skipped another.
C25_Witness ==
  /\ ticker_pc = "finish"
  /\ Len(examined) >= 2
  /\ address_to_connect # "none"
  /\ PeerOfAddress(examined[1]).peer # address_to_connect

(***************************************************************************)
(* A further claim about the history sweep, checked under SpecRate.        *)
(***************************************************************************)
\* The history of kernel k after its first n recorded calls in a run
\* without any sweep, and what the n-th call returns in that run.
RECURSIVE UnsweptHistory(_, _)
UnsweptHistory(k, n) ==
  IF n = 0 THEN <<>>
  ELSE TrimFront(Append(UnsweptHistory(k, n - 1), calls_log[k][n].t))
UnsweptRet(k, n) ==
  IF TooManyCalls(UnsweptHistory(k, n)) THEN 0 ELSE calls_log[k][n].fee

\* C26: every validation returns what it returns in the run without
\* sweeps that has the same calls at the same times.
C26_SweepKeepsResults ==
  \A k \in Kernels : \A n \in 1..Len(calls_log[k]) :
    calls_log[k][n].ret = UnsweptRet(k, n)

\* A kernel was rejected, its history was swept, and it was called again.
C26_Witness ==
  \E k \in Kernels :
    /\ epoch[k] > 0
    /\ calls_log[k][epoch[k]].ret = 0
    /\ Len(calls_log[k]) > epoch[k]
    /\ k \in DOMAIN requests_cash
    /\ Len(requests_cash[k]) < Len(UnsweptHistory(k, Len(calls_log[k])))

====
